---- MODULE Spec2Model ----
(***************************************************************************)
(* Scan task scheduling and asset-monitoring engine of ARL.                *)
(*                                                                         *)
(* The module models four parts of the program over one set of variables:  *)
(*   - the Task Submission Protocol (helpers/task.py submit_task) with the *)
(*     worker pool that consumes the queue (celerytask.py, tasks/*.py);    *)
(*   - the scheduler loop and the cron evaluation of ScheduledJobs         *)
(*     (scheduler.py run_forever, helpers/task_schedule.py);               *)
(*   - the reconciliation of ScheduleRuns and their notification           *)
(*     (helpers/task_schedule.py process_task_schedule_runs);              *)
(*   - the add-monitor routes (routes/scheduler.py, scheduler.py add_job). *)
(* Each part has its own specification (SpecSubmit, SpecCron, SpecRun,     *)
(* SpecMonitor) that enables the actions of that part and leaves the rest  *)
(* of the state alone.                                                     *)
(***************************************************************************)
EXTENDS Integers, Sequences, FiniteSets, TLC

\* ------------------------------------------------------------------------
\* Bounds of the model
\* ------------------------------------------------------------------------
\* number of concurrent callers of submit_task
NCallers == 2
\* number of Task records the store may hold (ObjectIds handed out)
MaxTasks == 3
\* number of ScheduledJobs in collection 'task_schedule'
NJobs == 2
\* number of ScheduleRun records the store may hold
MaxRuns == 2
\* the clock of the model starts at StartBase and stops at StartBase + MaxElapsed
StartBase == 600
MaxElapsed == 300
\* longest time (seconds) the work of one scheduler cycle takes
MaxWork == 1
\* number of times the scheduler process is killed and restarted
MaxCrashes == 1
\* operator requests to stop or recover a job that are served
MaxOps == 2
\* job messages of MonitorJobs the broker accepts
MaxMonFires == 2
\* number of add-monitor requests the API serves, each by its own thread
NRequests == 2
\* number of GithubTaskMonitor runs the worker pool executes at a time
NGhRuns == 2
\* number of MonitorJob records the store may hold
MaxMonitors == 3

Callers == 1..NCallers
TaskIds == 1..MaxTasks
Jobs == 1..NJobs
RunIds == 1..MaxRuns
Requests == 1..NRequests
GhRuns == 1..NGhRuns
MonIds == 1..MaxMonitors
MaxTime == StartBase + MaxElapsed
\* the second of the minute at which the scheduler process is started
StartTimes == {StartBase, StartBase + 1, StartBase + 50}
\* seconds between a tick and the restart of a killed scheduler process
RestartDelays == {0, 30}

\* ------------------------------------------------------------------------
\* Constants of the program
\* ------------------------------------------------------------------------
\* task_schedule.py line 59: lookahead window of the cron check (seconds)
Lookahead == 60
\* task_schedule.py line 59: cool-down since the last fire (seconds)
Cooldown == 180
\* scheduler.py line 474: time.sleep(58)
SleepSeconds == 58
\* task_schedule.py line 49: should_scheduler_tag
SchedulerTags == {"task", "risk_cruising"}
\* routes/scheduler.py lines 161, 539, 610: 3600 * 6
MinInterval == 21600
\* scheduler.py lines 88, 123, 157: the first run is 30 seconds after the add
FirstRunDelay == 30
\* scheduler.py line 205: sys.maxsize, the next_run_time of a stopped job; the
\* model keeps the largest value of its integers
SysMaxsize == 2147483647

VARIABLES
    task,        \* collection 'task': task id -> record, status "absent" = no document
    queue,       \* payloads (task ids) published to the celery queue 'arltask'
    working,     \* payloads a worker is executing
    nextTaskId,  \* next ObjectId the store hands out
    sub,         \* per caller: position inside submit_task
    now,         \* time.time(), in whole seconds
    bootTime,    \* time of the log line "start scheduler server"
    sched,       \* collection 'task_schedule': job id -> ScheduledJob document
    run,         \* collection 'task_schedule_run': run id -> document
    nextRunId,   \* next ObjectId of collection 'task_schedule_run'
    tickPc,      \* position of the scheduler process inside run_forever
    tickItems,   \* task_scheduler: items = list(find()), the tick's snapshot
    tickIdx,     \* task_scheduler: index of the next item of the snapshot
    tickRuns,    \* process_task_schedule_runs: run_items still to handle
    tickRunItem, \* process_task_schedule_runs: run_item about to be written
    fireLog,     \* the log lines "run_recurrent_scan"/"run_future_scan"
    sent,        \* notifications the channel delivered, per run
    crashes,     \* number of restarts of the scheduler process
    tickFire,    \* run_recurrent_scan / run_future_scan: the item between its
                 \* find_one_and_replace and submit_task_schedule
    excLog,      \* what logger.exception has logged in this cycle
    opLog,       \* the operator's stop and recover requests that were served
    monItems,    \* asset_monitor_scheduler: the list all_job() returned
    monIdx,      \* asset_monitor_scheduler: index of the next item of the list
    monCurr,     \* asset_monitor_scheduler: curr_time
    monFireLog,  \* the job messages asset_monitor_scheduler has submitted
    monSent,     \* per monitor job: its job messages no worker has executed yet
    monTask,     \* per Task: the monitor job whose fire made it, 0 = none
    mon,         \* collection 'scheduler': monitor job id -> MonitorJob document
    nextMonId,   \* next ObjectId of collection 'scheduler'
    monCache,    \* redis entries "arl:get_monitor_domain_by_id:<scope_id>"
    redisEnabled,\* Config.REDIS_ENABLE
    req,         \* per add-monitor request: its position inside the route, its response
    dnsEnv,      \* what the scan and the resolver answer during one monitor cycle
    dx,          \* DomainExecutor: position inside run() and its attributes
    githubHash,  \* collection 'github_hash': pairs <<github_scheduler_id, hash_md5>>
    ghResult,    \* collection 'github_monitor_result': documents per pair
    gh,          \* per GithubTaskMonitor run: position inside run() and attributes
    treq,        \* the task routes: the request being served or served last
    assetIp,     \* collection 'asset_ip' of one scope: ip -> its document
    ipx,         \* IPExecutor: position inside run() and its attributes
    taskName,    \* per Task: the run number its name ends with, 0 = none
    ex           \* per Task: the worker-side executor that runs it

submitVars == <<task, queue, working, nextTaskId, sub>>
tickLogVars == <<tickFire, excLog, opLog>>
monTickVars == <<monItems, monIdx, monCurr, monFireLog, monSent, monTask>>
schedVars == <<now, bootTime, sched, run, nextRunId, tickPc, tickItems, tickIdx,
               tickRuns, tickRunItem, fireLog, sent, crashes, tickLogVars,
               monTickVars>>
monVars == <<mon, nextMonId, monCache, redisEnabled, req>>
diffVars == <<dnsEnv, dx>>
dedupVars == <<githubHash, ghResult, gh>>
routeVars == <<treq>>
ipVars == <<assetIp, ipx>>
nameVars == <<taskName>>
execVars == <<ex>>
extVars == <<diffVars, dedupVars, routeVars, ipVars, nameVars, execVars>>
vars == <<task, queue, working, nextTaskId, sub, now, bootTime, sched, run,
          nextRunId, tickPc, tickItems, tickIdx, tickRuns, tickRunItem,
          fireLog, sent, crashes, tickLogVars, monTickVars, mon, nextMonId,
          monCache, redisEnabled, req, extVars>>

NoTask == [status |-> "absent", celery_id |-> ""]
IdleSub == [pc |-> "idle", tid |-> 0, result |-> "none", err |-> "none"]

NoRun == [status |-> "absent"]
NoMon == [status |-> "absent"]
NoCache == [hit |-> FALSE, data |-> {}]
IdleReq == [pc |-> "idle", kind |-> "none", scope |-> 0, interval |-> 0,
            todo |-> << >>, result |-> "none"]

\* collection 'asset_scope': a domain scope and an ip scope
ScopeData ==
    [s \in {1, 2} |->
        IF s = 1
        THEN [scope_type |-> "domain", scope_array |-> {"a.com", "b.com"}]
        ELSE [scope_type |-> "ip", scope_array |-> {"1.1.1.1", "2.2.2.2"}]]
\* scope ids a request can name; 3 is the id of no scope
ScopeIds == {1, 2, 3}
NoRunItem == [id |-> 0, rec |-> NoRun]
\* no firing is between its write to the store and its dispatch
NoFire == [job |-> 0, item |-> NoRun]
\* the next_run_date "-" of a job that is not scheduled or was never fired
NoDate == -1

\* no monitor cycle is running
NoEnv == [discovered |-> {}, baseline |-> {}, dns |-> << >>, wild |-> << >>]
IdleDx == [pc |-> "idle", domain_set |-> {}, scope_domain_set |-> {},
           new_domain_set |-> {}, wildcard_ip_set |-> {}, result |-> {}]
DiffIdle == dnsEnv = NoEnv /\ dx = IdleDx

\* GitHub monitors (github_scheduler ids) and content hashes of search results
GhSchedulers == {1, 2}
GhHashes == {"h1", "h2"}
GhKeys == GhSchedulers \X GhHashes
IdleGh == [pc |-> "idle", sid |-> 0, hash_md5_list |-> {}, results |-> << >>,
           idx |-> 1, cnt |-> 0]
DedupIdle ==
    /\ githubHash = {}
    /\ ghResult = [k \in GhKeys |-> 0]
    /\ gh = [r \in GhRuns |-> IdleGh]
\* no request of the task routes has been served
IdleTreq == [pc |-> "idle", stop_id |-> 0, kind |-> "none", ids |-> << >>,
             code |-> "none", made |-> {}, revoked |-> FALSE]
RouteIdle == treq = IdleTreq

\* addresses and ports of the scans of an ip monitor job
IpAddrs == {"10.0.0.1", "10.0.0.2"}
Ports == {80, 443}
\* no document for an address; no ip_info of an address in a scan output
NoIp == [known |-> FALSE, ports |-> {}]
IdleIpx == [pc |-> "idle", scan |-> [a \in IpAddrs |-> NoIp],
            base |-> [a \in IpAddrs |-> NoIp],
            asset_ip_info_map |-> [a \in IpAddrs |-> NoIp],
            asset_ip_port_set |-> {},
            ip_info_list |-> [a \in IpAddrs |-> NoIp], runs |-> 0]
IpIdle == assetIp = [a \in IpAddrs |-> NoIp] /\ ipx = IdleIpx

\* the processes outside the scheduler, the worker pool and the routes are idle
\* no Task has a name with a run number
NameIdle == taskName = [t \in TaskIds |-> 0]

\* no worker-side executor has started
IdleEx == [kind |-> "none", pc |-> 0, raised |-> FALSE]
ExecIdle == ex = [t \in TaskIds |-> IdleEx]

InitExt == DiffIdle /\ DedupIdle /\ RouteIdle /\ IpIdle /\ NameIdle /\ ExecIdle

\* a ScheduledJob as the operator's add request stores it: never fired
NewJob(type, cron, start, tag, targets, enable, channel, on) ==
    [status |-> "scheduled", schedule_type |-> type, cron |-> cron,
     start_time |-> start, last_run_time |-> 0, run_number |-> 0,
     next_run_date |-> IF type = "future_scan" THEN start ELSE NoDate,
     task_tag |-> tag, targets |-> targets, notify_enable |-> enable,
     notify_channel |-> channel, notify_on |-> on]

\* the collections of the tasks, jobs and runs are empty and the scheduler
\* process is at the start of its cycle
InitTick ==
    /\ task = [t \in TaskIds |-> NoTask]
    /\ queue = {}
    /\ working = {}
    /\ nextTaskId = 1
    /\ sub = [c \in Callers |-> IdleSub]
    /\ run = [r \in RunIds |-> NoRun]
    /\ nextRunId = 1
    /\ tickPc = "mon_load"
    /\ tickItems = << >>
    /\ tickIdx = 1
    /\ tickFire = NoFire
    /\ excLog = {}
    /\ opLog = << >>
    /\ monItems = [m \in MonIds |-> NoMon]
    /\ monIdx = 1
    /\ monCurr = 0
    /\ monFireLog = << >>
    /\ monSent = [m \in MonIds |-> 0]
    /\ monTask = [t \in TaskIds |-> 0]
    /\ tickRuns = << >>
    /\ tickRunItem = NoRunItem
    /\ fireLog = << >>
    /\ sent = [r \in RunIds |-> 0]
    /\ crashes = 0
    /\ monCache = [s \in ScopeIds |-> NoCache]
    /\ req = [c \in Requests |-> IdleReq]

\* the stores are empty and every process is at its start
InitStores ==
    /\ InitTick
    /\ mon = [m \in MonIds |-> NoMon]
    /\ nextMonId = 1

\* no ScheduledJob matters to the callers of submit_task: the jobs are stopped
InitSubmit ==
    /\ InitStores
    /\ InitExt
    /\ redisEnabled = FALSE
    /\ now = StartBase
    /\ bootTime = now
    /\ sched = [j \in Jobs |->
                [NewJob("future_scan", 0, 0, "task", 1, TRUE, "dingding", "finished")
                    EXCEPT !.status = "stop"]]

\* ------------------------------------------------------------------------
\* helpers/task.py submit_task, one step per store or queue operation
\* ------------------------------------------------------------------------
\* line 207: insert_one(task_data) with status waiting (build_task_data)
SubmitInsert(c) ==
    /\ UNCHANGED extVars
    /\ sub[c].pc = "idle"
    /\ nextTaskId <= MaxTasks
    /\ task' = [task EXCEPT ![nextTaskId] = [status |-> "waiting", celery_id |-> ""]]
    /\ sub' = [sub EXCEPT ![c] = [pc |-> "inserted", tid |-> nextTaskId,
                                  result |-> "none", err |-> "none"]]
    /\ nextTaskId' = nextTaskId + 1
    /\ UNCHANGED <<queue, working, schedVars, monVars>>

\* the outcomes of celerytask.arl_task.delay: the payload is published and
\* the call returns; the call raises and nothing was published; the call
\* raises although the broker accepted the payload (at-least-once substrate)
EnqueueOutcomes == {"ok", "fail", "fail_sent"}

\* line 236: celerytask.arl_task.delay(options=task_options)
SubmitEnqueue(c) ==
    /\ UNCHANGED extVars
    /\ sub[c].pc = "inserted"
    /\ \E o \in EnqueueOutcomes :
        /\ queue' = IF o = "fail" THEN queue ELSE queue \cup {sub[c].tid}
        /\ sub' = [sub EXCEPT ![c].pc = IF o = "ok" THEN "enqueued" ELSE "rollback",
                              ![c].err = IF o = "ok" THEN "none" ELSE "enqueue"]
    /\ UNCHANGED <<task, working, nextTaskId, schedVars, monVars>>

\* line 240-242: update_one(_id, $set celery_id); an update of a missing
\* document matches nothing; a store error raises into the except branch
SubmitPatch(c) ==
    /\ UNCHANGED extVars
    /\ sub[c].pc = "enqueued"
    /\ \/ /\ task' = IF task[sub[c].tid].status = "absent" THEN task
                     ELSE [task EXCEPT ![sub[c].tid].celery_id = "cid"]
          /\ sub' = [sub EXCEPT ![c].pc = "returned", ![c].result = "task_data"]
       \/ /\ task' = task
          /\ sub' = [sub EXCEPT ![c].pc = "rollback", ![c].err = "store"]
    /\ UNCHANGED <<queue, working, nextTaskId, schedVars, monVars>>

RollbackDeletesAnyStatus(rec) == TRUE

\* the filter of the rollback's delete_one: the record must still be waiting
RollbackDeletes(rec) == rec.status = "waiting"

\* line 244-248: delete_one({_id, status: waiting}); raise e
SubmitRollback(c) ==
    /\ UNCHANGED extVars
    /\ sub[c].pc = "rollback"
    /\ task' = IF RollbackDeletes(task[sub[c].tid])
               THEN [task EXCEPT ![sub[c].tid] = NoTask]
               ELSE task
    /\ sub' = [sub EXCEPT ![c].pc = "raised", ![c].result = "raise"]
    /\ UNCHANGED <<queue, working, nextTaskId, schedVars, monVars>>

\* the caller of submit_task goes on to its next request
SubmitDone(c) ==
    /\ UNCHANGED extVars
    /\ sub[c].pc \in {"returned", "raised"}
    /\ sub' = [sub EXCEPT ![c] = IdleSub]
    /\ UNCHANGED <<task, queue, working, nextTaskId, schedVars, monVars>>

\* ------------------------------------------------------------------------
\* the worker pool: celerytask.py run_task and the executors of tasks/*.py
\* ------------------------------------------------------------------------
\* a worker receives a payload and writes its first progress label;
\* update_task_field is an update_one that matches no document when the
\* record is gone
WorkerStart(t) ==
    /\ UNCHANGED extVars
    /\ t \in queue
    /\ queue' = queue \ {t}
    /\ working' = working \cup {t}
    /\ task' = IF task[t].status = "absent" THEN task
               ELSE [task EXCEPT ![t].status = "running"]
    /\ UNCHANGED <<nextTaskId, sub, schedVars, monVars>>

\* the executor ends: status done, or error from its except branch
WorkerFinish(t) ==
    /\ UNCHANGED extVars
    /\ t \in working
    /\ working' = working \ {t}
    /\ \E s \in {"done", "error"} :
        task' = IF task[t].status = "absent" THEN task
                ELSE [task EXCEPT ![t].status = s]
    /\ UNCHANGED <<queue, nextTaskId, sub, schedVars, monVars>>

\* ------------------------------------------------------------------------
\* routes/task.py: the stop, delete and restart requests of the operator
\* ------------------------------------------------------------------------
\* routes/task.py lines 285, 350, 695: done_status
DoneStatus == {"done", "stop", "error"}

\* the lists of task ids of a delete or restart request: up to MaxList
\* different ids
MaxList == 2
IdLists ==
    {lst \in UNION {[1..n -> TaskIds] : n \in 1..MaxList} :
        \A i, k \in 1..Len(lst) : i # k => lst[i] # lst[k]}

\* stop_task lines 288-299: the read of the record and the checks that end
\* the request; "none" when the request goes on
StopCheck(rec) ==
    IF rec.status = "absent" THEN "NotFoundTask"
    ELSE IF rec.status \in DoneStatus THEN "TaskIsDone"
    ELSE IF rec.celery_id = "" THEN "CeleryIdNotFound"
    ELSE "none"

\* stop_task lines 288-299
StopTaskCheck(t) ==
    /\ treq.pc = "idle"
    /\ treq' = IF StopCheck(task[t]) = "none"
               THEN [treq EXCEPT !.pc = "stop_checked", !.stop_id = t]
               ELSE [treq EXCEPT !.kind = "stop", !.ids = <<t>>,
                                 !.code = StopCheck(task[t]), !.made = {},
                                 !.revoked = FALSE]
    /\ UNCHANGED <<submitVars, schedVars, monVars, diffVars, dedupVars, ipVars, nameVars, execVars>>

\* stop_task lines 302-311: control.revoke(celery_id, terminate=True), which
\* reaches the worker before its next write or after it, then the update_one
\* that sets status stop
StopTaskWrite ==
    /\ treq.pc = "stop_checked"
    /\ LET t == treq.stop_id
       IN  /\ \E effective \in BOOLEAN :
                /\ queue' = IF effective THEN queue \ {t} ELSE queue
                /\ working' = IF effective THEN working \ {t} ELSE working
           /\ task' = IF task[t].status = "absent" THEN task
                      ELSE [task EXCEPT ![t].status = "stop"]
           /\ treq' = [treq EXCEPT !.pc = "idle", !.stop_id = 0, !.kind = "stop",
                                   !.ids = <<t>>, !.code = "Success",
                                   !.made = {}, !.revoked = TRUE]
    /\ UNCHANGED <<nextTaskId, sub, schedVars, monVars, diffVars, dedupVars, ipVars, nameVars, execVars>>

\* the index of the first id of the list that the validation loop refuses,
\* 0 when it refuses none
FirstRefused(lst) ==
    LET bad == {i \in 1..Len(lst) : task[lst[i]].status \notin DoneStatus}
    IN  IF bad = {} THEN 0 ELSE CHOOSE i \in bad : \A k \in bad : i <= k

ValidateNothing(lst) == "none"

\* DeleteTask.post lines 356-363, TaskRestart.post lines 701-708: the
\* validation loop over the ids of the request; "none" when it refuses none
Validate(lst) ==
    IF FirstRefused(lst) = 0 THEN "none"
    ELSE IF task[lst[FirstRefused(lst)]].status = "absent" THEN "NotFoundTask"
    ELSE "TaskIsRunning"

\* DeleteTask.post lines 351-379
DeleteTask(lst) ==
    /\ task' = IF Validate(lst) = "none"
               THEN [t \in TaskIds |->
                        IF \E i \in 1..Len(lst) : lst[i] = t THEN NoTask ELSE task[t]]
               ELSE task
    /\ treq' = [treq EXCEPT !.kind = "delete", !.ids = lst,
                            !.code = IF Validate(lst) = "none" THEN "Success"
                                     ELSE Validate(lst),
                            !.made = {}, !.revoked = FALSE]
    /\ UNCHANGED <<queue, working, nextTaskId, sub, schedVars, monVars, diffVars,
                   dedupVars, ipVars, nameVars, execVars>>

\* restart_task lines 360-369: the Tasks of a domain or ip monitor job are
\* not restarted, restart_task raises for them
Restartable(t) ==
    ~(monTask[t] # 0 /\ mon[monTask[t]].scope_type \in {"domain", "ip"})

\* TaskRestart.post lines 696-717: the validation loop, then restart_task for
\* one id after the other; the call number stop raises, either because the
\* Task is not restartable or because its submit_task fails after the insert
TaskRestart(lst) ==
    /\ IF Validate(lst) # "none"
       THEN /\ treq' = [treq EXCEPT !.kind = "restart", !.ids = lst,
                                    !.code = Validate(lst), !.made = {},
                                    !.revoked = FALSE]
            /\ UNCHANGED <<task, queue, nextTaskId, monTask>>
       ELSE \E fail \in 1..(Len(lst) + 1) :
            LET raising == {i \in 1..Len(lst) : ~Restartable(lst[i])} \cup {fail}
                stop == CHOOSE i \in raising : \A k \in raising : i <= k
                new == [i \in 1..(stop - 1) |-> nextTaskId + i - 1]
                used == IF stop <= Len(lst) /\ Restartable(lst[stop])
                        THEN stop ELSE stop - 1
            IN  /\ nextTaskId + used - 1 <= MaxTasks
                /\ task' = [t \in TaskIds |->
                             IF \E i \in 1..(stop - 1) : new[i] = t
                             THEN [status |-> "waiting", celery_id |-> "cid"]
                             ELSE task[t]]
                /\ queue' = queue \cup {new[i] : i \in 1..(stop - 1)}
                /\ nextTaskId' = nextTaskId + used
                /\ monTask' = [t \in TaskIds |->
                                IF \E i \in 1..(stop - 1) : new[i] = t
                                THEN monTask[lst[CHOOSE i \in 1..(stop - 1) : new[i] = t]]
                                ELSE monTask[t]]
                /\ treq' = [treq EXCEPT !.kind = "restart", !.ids = lst,
                                        !.code = IF stop <= Len(lst) THEN "Error"
                                                 ELSE "Success",
                                        !.made = {new[i] : i \in 1..(stop - 1)},
                                        !.revoked = FALSE]
    /\ UNCHANGED <<working, sub, now, bootTime, sched, run, nextRunId, tickPc,
                   tickItems, tickIdx, tickRuns, tickRunItem, fireLog, sent,
                   crashes, tickLogVars, monItems, monIdx, monCurr, monFireLog,
                   monSent>>
    /\ UNCHANGED <<monVars, diffVars, dedupVars, ipVars, nameVars, execVars>>

NextSubmit ==
    \/ \E c \in Callers : SubmitInsert(c)
    \/ \E c \in Callers : SubmitEnqueue(c)
    \/ \E c \in Callers : SubmitPatch(c)
    \/ \E c \in Callers : SubmitRollback(c)
    \/ \E c \in Callers : SubmitDone(c)
    \/ \E t \in TaskIds : WorkerStart(t)
    \/ \E t \in TaskIds : WorkerFinish(t)

SpecSubmit == InitSubmit /\ [][NextSubmit]_vars

\* ------------------------------------------------------------------------
\* Properties of the Task Submission Protocol
\* ------------------------------------------------------------------------
\* C1: when the enqueue call of submit_task fails, the step that ends
\* submit_task deletes the inserted Task record if it is still waiting and
\* keeps it unchanged if a worker moved it out of waiting; submit_task ends
\* by raising the enqueue error, and once it has raised no waiting record of
\* that submission is left in the store.
C1_RollbackOnEnqueueFailure ==
    /\ [](\A c \in Callers :
            (sub[c].pc = "raised" /\ sub[c].err = "enqueue")
                => task[sub[c].tid].status # "waiting")
    /\ [][\A c \in Callers :
            (sub[c].pc = "rollback" /\ sub[c].err = "enqueue" /\ sub'[c] # sub[c])
                => /\ sub'[c].pc = "raised"
                   /\ sub'[c].result = "raise"
                   /\ sub'[c].err = "enqueue"
                   /\ task[sub[c].tid].status = "waiting"
                        => task'[sub[c].tid] = NoTask
                   /\ task[sub[c].tid].status # "waiting"
                        => task'[sub[c].tid] = task[sub[c].tid]]_vars

\* C1 witness: one failed submission was rolled back, another one's record
\* was kept because a worker had already started it
C1_Witness ==
    \E c1, c2 \in Callers :
        /\ sub[c1].pc = "raised" /\ sub[c1].err = "enqueue"
        /\ task[sub[c1].tid] = NoTask
        /\ sub[c2].pc = "raised" /\ sub[c2].err = "enqueue"
        /\ task[sub[c2].tid].status \in {"running", "done", "error"}

\* ------------------------------------------------------------------------
\* helpers/task_schedule.py: evaluation and firing of ScheduledJobs
\* ------------------------------------------------------------------------
Abs(x) == IF x < 0 THEN 0 - x ELSE x
Range(f) == {f[i] : i \in DOMAIN f}

\* cron expressions of the jobs, as their period in seconds:
\* "* * * * *" and "*/5 * * * *"
CronPeriods == {60, 300}
\* start_time of future_scan jobs: unset, or a time after the scheduler's start
FutureStarts == {0, StartBase + 100}

\* CronTab(cron).next(): seconds from t to the next occurrence of the cron
\* expression; the library looks for the first match strictly after t
NextSec(cron, t) == cron - (t % cron)

ShouldFireNoCooldown(item, t) ==
    NextSec(item.cron, t) < Lookahead

ShouldFireAtWindowEdge(item, t) ==
    /\ NextSec(item.cron, t) <= Lookahead
    /\ Abs(t - item.last_run_time) >= Cooldown

\* task_scheduler line 59: next_sec < 60 and abs(now - last_run_time) > 60*3
ShouldFireRecurrent(item, t) ==
    /\ NextSec(item.cron, t) < Lookahead
    /\ Abs(t - item.last_run_time) > Cooldown

\* task_scheduler line 66: 0 < start_time <= time.time()
ShouldFireFuture(item, t) ==
    /\ 0 < item.start_time
    /\ item.start_time <= t

\* what the dispatch of a firing can end with: every Task was submitted; the
\* policy of the job resolves to no options; submit_task raised at one Task
DispatchOutcomes == {"ok", "no_policy", "dispatch_fail"}

\* CronTab(cron): the expression parses; a period of 0 stands for an
\* expression the library rejects
CronValid(cron) == cron > 0

\* get_next_run_date: the occurrence after now + 61, less 60 seconds
GetNextRunDate(cron, t) == (t + 61) + NextSec(cron, t + 61) - 60

\* run_recurrent_scan lines 433-436: the item as it is written to the store
RecurrentFired(item, t) ==
    [item EXCEPT !.next_run_date = GetNextRunDate(item.cron, t),
                 !.run_number = item.run_number + 1,
                 !.last_run_time = t]

FutureFiredStillScheduled(item) ==
    [item EXCEPT !.run_number = item.run_number + 1]

\* run_future_scan lines 465-466
FutureFired(item) ==
    [item EXCEPT !.run_number = item.run_number + 1, !.status = "done"]

PersistNothing(j, item) == sched

\* run_recurrent_scan line 441, run_future_scan line 467:
\* find_one_and_replace(query, item)
PersistFired(j, item) == [sched EXCEPT ![j] = item]

ChangeStatusFromAny(item, status, t) ==
    IF item.status = status THEN item
    ELSE IF status \in {"done", "error", "stop"}
    THEN [item EXCEPT !.status = status, !.next_run_date = NoDate]
    ELSE IF item.schedule_type = "recurrent_scan"
    THEN IF CronValid(item.cron)
         THEN [item EXCEPT !.status = status,
                           !.next_run_date = GetNextRunDate(item.cron, t)]
         ELSE item
    ELSE [item EXCEPT !.status = status, !.next_run_date = item.start_time]

\* change_task_schedule_status: the document it leaves in the store for a
\* stored item; status error is never left, the same status is not set again,
\* and get_next_run_date raises on an expression that does not parse
ChangeStatus(item, status, t) ==
    IF item.status = "error" THEN item
    ELSE IF item.status = status THEN item
    ELSE IF status \in {"done", "error", "stop"}
    THEN [item EXCEPT !.status = status, !.next_run_date = NoDate]
    ELSE IF item.schedule_type = "recurrent_scan"
    THEN IF CronValid(item.cron)
         THEN [item EXCEPT !.status = status,
                           !.next_run_date = GetNextRunDate(item.cron, t)]
         ELSE item
    ELSE [item EXCEPT !.status = status, !.next_run_date = item.start_time]

\* create_task_schedule_run: the run document of one firing
NewRun(j, item, ids) ==
    [status |-> "running", schedule_id |-> j, run_number |-> item.run_number,
     task_ids |-> ids, push_status |-> "pending",
     notify_enable |-> item.notify_enable,
     notify_channel |-> item.notify_channel,
     notify_on |-> item.notify_on,
     summary |-> << >>, end_time |-> 0]

\* submit_task_schedule lines 112-116: the name of the Tasks of a
\* recurrent_scan job ends with item.get("run_number", 0) + 1, the name of
\* the Tasks of a future_scan job holds no number (0)
NameNumber(item) ==
    IF item.schedule_type = "recurrent_scan" THEN item.run_number + 1 ELSE 0

\* submit_task_schedule(item) followed by create_task_schedule_run(item,
\* task_data_list).  The Tasks before the k-th one are submitted; with
\* outcome dispatch_fail the k-th submit_task raised and rolled its record
\* back, so no run document is created; with outcome no_policy
\* change_task_schedule_status(item["_id"], ERROR) is called before the raise
SubmitTaskSchedule(j, item, outcome, k) ==
    LET n == IF outcome = "ok" THEN item.targets
             ELSE IF outcome = "no_policy" THEN 0
             ELSE k - 1
        ids == [i \in 1..n |-> nextTaskId + i - 1]
        used == IF outcome = "dispatch_fail" THEN k ELSE n
    IN  /\ sched' = IF outcome = "no_policy"
                    THEN [sched EXCEPT ![j] = ChangeStatus(sched[j], "error", now)]
                    ELSE sched
        /\ task' = [t \in TaskIds |->
                        IF t \in Range(ids)
                        THEN [status |-> "waiting", celery_id |-> "cid"]
                        ELSE task[t]]
        /\ taskName' = [t \in TaskIds |->
                            IF t \in Range(ids) THEN NameNumber(item)
                            ELSE taskName[t]]
        /\ queue' = queue \cup Range(ids)
        /\ nextTaskId' = nextTaskId + used
        /\ IF outcome = "ok"
           THEN /\ run' = [run EXCEPT ![nextRunId] = NewRun(j, item, ids)]
                /\ nextRunId' = nextRunId + 1
           ELSE UNCHANGED <<run, nextRunId>>

\* the position of task_scheduler after the body of its loop for the item
\* at index idx
AfterItem(idx) == IF idx = NJobs THEN "runs" ELSE "jobs"

AbortJobLoop(idx) == "runs"

\* task_scheduler lines 70-71: the except clause is inside the for loop, so
\* the loop goes on with the next item
AfterException(idx) == AfterItem(idx)

\* task_scheduler line 42: items = list(find())
TickLoad ==
    /\ tickPc = "load"
    /\ tickItems' = sched
    /\ tickIdx' = 1
    /\ tickPc' = "jobs"
    /\ UNCHANGED <<task, queue, working, nextTaskId, sub, now, bootTime, sched,
                   run, nextRunId, tickRuns, tickRunItem, fireLog, sent, crashes>>
    /\ UNCHANGED <<tickLogVars, monTickVars, monVars, extVars>>

\* task_scheduler lines 43-71: the body of the loop for one item, up to and
\* including the find_one_and_replace of run_recurrent_scan / run_future_scan
TickJob ==
    /\ tickPc = "jobs"
    /\ tickIdx <= NJobs
    /\ LET j == tickIdx
           item == tickItems[j]
           skip ==
               /\ tickIdx' = tickIdx + 1
               /\ tickPc' = AfterItem(tickIdx)
               /\ UNCHANGED <<sched, fireLog, tickFire, excLog>>
           raise ==
               /\ excLog' = excLog \cup {<<"job", j>>}
               /\ tickIdx' = tickIdx + 1
               /\ tickPc' = AfterException(tickIdx)
               /\ UNCHANGED <<sched, fireLog, tickFire>>
           fire(fired, occ) ==
               /\ nextTaskId + item.targets - 1 <= MaxTasks
               /\ nextRunId <= MaxRuns
               /\ sched' = PersistFired(j, fired)
               /\ fireLog' = Append(fireLog, [job |-> j, at |-> now, occ |-> occ])
               /\ tickFire' = [job |-> j, item |-> fired]
               /\ tickPc' = "dispatch"
               /\ UNCHANGED <<tickIdx, excLog>>
       IN  IF item.status # "scheduled" \/ item.task_tag \notin SchedulerTags
           THEN skip
           ELSE IF item.schedule_type = "recurrent_scan"
           THEN IF ~CronValid(item.cron)
                THEN raise
                ELSE IF ShouldFireRecurrent(item, now)
                THEN fire(RecurrentFired(item, now), now + NextSec(item.cron, now))
                ELSE skip
           ELSE IF ShouldFireFuture(item, now)
                THEN fire(FutureFired(item), item.start_time)
                ELSE skip
    /\ UNCHANGED <<task, queue, working, nextTaskId, sub, now, bootTime, run,
                   nextRunId, tickItems, tickRuns, tickRunItem, sent, crashes,
                   opLog>>
    /\ UNCHANGED <<monTickVars, monVars, extVars>>

\* run_recurrent_scan lines 444-445, run_future_scan lines 470-471: the
\* Tasks of the firing are submitted and its run document is created
TickDispatch ==
    /\ tickPc = "dispatch"
    /\ LET j == tickFire.job
           item == tickFire.item
       IN  \E outcome \in DispatchOutcomes : \E k \in 1..item.targets :
            /\ SubmitTaskSchedule(j, item, outcome, k)
            /\ excLog' = IF outcome = "ok" THEN excLog
                         ELSE excLog \cup {<<"job", j>>}
            /\ tickPc' = IF outcome = "ok" THEN AfterItem(tickIdx)
                         ELSE AfterException(tickIdx)
    /\ tickIdx' = tickIdx + 1
    /\ tickFire' = NoFire
    /\ UNCHANGED <<working, sub, now, bootTime, tickItems, tickRuns, tickRunItem,
                   fireLog, sent, crashes, opLog>>
    /\ UNCHANGED <<monTickVars, monVars, diffVars, dedupVars, routeVars, ipVars,
                   execVars>>

\* an operator's request that ends in change_task_schedule_status(_id, status):
\* the job is stopped, or scheduled again
ChangeTaskScheduleStatus(j, status) ==
    /\ Len(opLog) < MaxOps
    /\ sched' = [sched EXCEPT ![j] = ChangeStatus(sched[j], status, now)]
    /\ opLog' = Append(opLog, [job |-> j, status |-> status,
                                applied |-> ChangeStatus(sched[j], status, now) # sched[j]])
    /\ UNCHANGED <<task, queue, working, nextTaskId, sub, now, bootTime, run,
                   nextRunId, tickPc, tickItems, tickIdx, tickRuns, tickRunItem,
                   fireLog, sent, crashes, tickFire, excLog>>
    /\ UNCHANGED <<monTickVars, monVars, extVars>>

\* ------------------------------------------------------------------------
\* helpers/task_schedule.py: reconciliation of ScheduleRuns
\* ------------------------------------------------------------------------
BuildSummaryLostRuns(ids) ==
    LET found == {t \in Range(ids) : task[t].status # "absent"}
        cnt(S) == Cardinality({t \in found : task[t].status \in S})
        lost == Len(ids) - Cardinality(found)
    IN  [total |-> Len(ids),
         done |-> cnt({"done"}),
         error |-> cnt({"error"}),
         stop |-> cnt({"stop"}),
         waiting |-> cnt({"waiting"}),
         running |-> lost + Cardinality({t \in found :
                        task[t].status \notin {"done", "error", "stop", "waiting"}}),
         missing |-> 0]

\* build_schedule_run_summary lines 196-200: bson.ObjectId(task_id) raises for
\* a string that is no ObjectId; BadId stands for such a string
BadId == 0
IsObjectId(id) == id # BadId

BuildSummaryNoMalformed(ids) ==
    LET object_ids == SelectSeq(ids, IsObjectId)
        items == {t \in Range(object_ids) : task[t].status # "absent"}
        cnt(S) == Cardinality({t \in items : task[t].status \in S})
        lost == Len(object_ids) - Cardinality(items)
    IN  [total |-> Len(ids),
         done |-> cnt({"done"}),
         error |-> cnt({"error"}),
         stop |-> cnt({"stop"}),
         waiting |-> cnt({"waiting"}),
         running |-> Cardinality({t \in items :
                        task[t].status \notin {"done", "error", "stop", "waiting"}}),
         missing |-> IF lost > 0 THEN lost ELSE 0]

\* build_schedule_run_summary: the counters of the sub-task statuses; an id
\* that is no ObjectId is counted as missing, the find with $in answers with
\* one document per Task that exists, and the ids left over are missing
BuildSummary(ids) ==
    LET object_ids == SelectSeq(ids, IsObjectId)
        items == {t \in Range(object_ids) : task[t].status # "absent"}
        cnt(S) == Cardinality({t \in items : task[t].status \in S})
        malformed == Len(ids) - Len(object_ids)
        lost == Len(object_ids) - Cardinality(items)
    IN  [total |-> Len(ids),
         done |-> cnt({"done"}),
         error |-> cnt({"error"}),
         stop |-> cnt({"stop"}),
         waiting |-> cnt({"waiting"}),
         running |-> Cardinality({t \in items :
                        task[t].status \notin {"done", "error", "stop", "waiting"}}),
         missing |-> malformed + (IF lost > 0 THEN lost ELSE 0)]

ShouldPushFailedAlways(notify_on, run_status) ==
    IF notify_on \in {"always", "failed", "error"} THEN TRUE
    ELSE run_status = "finished"

\* should_push_schedule_run
ShouldPush(notify_on, run_status) ==
    IF notify_on = "always" THEN TRUE
    ELSE IF notify_on \in {"failed", "error"} THEN run_status = "error"
    ELSE run_status = "finished"

ClosedStatusStopFine(summary) ==
    IF summary.error + summary.missing = 0 THEN "finished" ELSE "error"

\* process_task_schedule_runs lines 371-372
ClosedStatus(summary) ==
    IF summary.error + summary.stop + summary.missing = 0 THEN "finished" ELSE "error"

QueryAnyRun(rec) == rec.status # "absent"

\* process_task_schedule_runs line 358: query = {"status": "running"}
QueryRunning(rec) == rec.status = "running"

\* process_task_schedule_runs line 359: run_items = list(find(query))
TickRunsLoad ==
    /\ tickPc = "runs"
    /\ tickRuns' = SelectSeq([r \in RunIds |-> [id |-> r, rec |-> run[r]]],
                             LAMBDA x : QueryRunning(x.rec))
    /\ tickPc' = IF tickRuns' = << >> THEN "sleep" ELSE "run_eval"
    /\ UNCHANGED <<task, queue, working, nextTaskId, sub, now, bootTime, sched,
                   run, nextRunId, tickItems, tickIdx, tickRunItem, fireLog,
                   sent, crashes>>
    /\ UNCHANGED <<tickLogVars, monTickVars, monVars, extVars>>

\* process_task_schedule_runs lines 361-390 for one run_item of the snapshot: the summary,
\* the closing decision and, when it is due, the call of push_dingding, which
\* the channel either delivers (True) or not (None)
RunEval ==
    /\ tickPc = "run_eval"
    /\ LET it == Head(tickRuns)
           summary == BuildSummary(it.rec.task_ids)
           open == [it.rec EXCEPT !.summary = summary]
           closed == [open EXCEPT !.status = ClosedStatus(summary),
                                  !.end_time = now]
       IN  IF summary.waiting > 0 \/ summary.running > 0
           THEN /\ tickRunItem' = [id |-> it.id, rec |-> open]
                /\ sent' = sent
           ELSE IF closed.notify_enable /\ ShouldPush(closed.notify_on, closed.status)
           THEN IF closed.notify_channel = "dingding"
                THEN \E delivered \in BOOLEAN :
                        /\ sent' = [sent EXCEPT ![it.id] =
                                        IF delivered THEN @ + 1 ELSE @]
                        /\ tickRunItem' = [id |-> it.id, rec |->
                                [closed EXCEPT !.push_status =
                                    IF delivered THEN "success" ELSE "error"]]
                ELSE /\ tickRunItem' = [id |-> it.id, rec |->
                                [closed EXCEPT !.push_status = "error"]]
                     /\ sent' = sent
           ELSE /\ tickRunItem' = [id |-> it.id, rec |->
                                [closed EXCEPT !.push_status = "skip"]]
                /\ sent' = sent
    /\ tickPc' = "run_write"
    /\ UNCHANGED <<task, queue, working, nextTaskId, sub, now, bootTime, sched,
                   run, nextRunId, tickItems, tickIdx, tickRuns, fireLog, crashes>>
    /\ UNCHANGED <<tickLogVars, monTickVars, monVars, extVars>>

\* process_task_schedule_runs lines 360-392 have no try inside the for loop:
\* an exception raised for one run_item (the store does not answer the find
\* of build_schedule_run_summary, or build_schedule_run_markdown raises)
\* leaves the loop and the function, and is caught by task_scheduler lines
\* 74-77
RunRaise ==
    /\ tickPc = "run_eval"
    /\ excLog' = excLog \cup {<<"run", Head(tickRuns).id>>}
    /\ tickRuns' = << >>
    /\ tickPc' = "sleep"
    /\ UNCHANGED <<task, queue, working, nextTaskId, sub, now, bootTime, sched,
                   run, nextRunId, tickItems, tickIdx, tickRunItem, fireLog,
                   sent, crashes, tickFire, opLog>>
    /\ UNCHANGED <<monTickVars, monVars, extVars>>

\* process_task_schedule_runs lines 367 and 392: find_one_and_replace
RunWrite ==
    /\ tickPc = "run_write"
    /\ run' = [run EXCEPT ![tickRunItem.id] = tickRunItem.rec]
    /\ tickRuns' = Tail(tickRuns)
    /\ tickRunItem' = NoRunItem
    /\ tickPc' = IF Tail(tickRuns) = << >> THEN "sleep" ELSE "run_eval"
    /\ UNCHANGED <<task, queue, working, nextTaskId, sub, now, bootTime, sched,
                   nextRunId, tickItems, tickIdx, fireLog, sent, crashes>>
    /\ UNCHANGED <<tickLogVars, monTickVars, monVars, extVars>>

\* ------------------------------------------------------------------------
\* scheduler.py asset_monitor_scheduler: evaluation and firing of MonitorJobs
\* ------------------------------------------------------------------------
\* all_job(): the number of documents of the snapshot; ObjectIds are handed
\* out in order, so the documents are those of the ids 1..MonCount
MonCount(items) == Cardinality({m \in MonIds : items[m].status # "absent"})

ShouldFireMonitorLate(item, curr_time) ==
    /\ item.status # "stop"
    /\ item.next_run_time < curr_time

\* asset_monitor_scheduler lines 384 and 388: the job is not stopped and
\* next_run_time <= curr_time
ShouldFireMonitor(item, curr_time) ==
    /\ item.status # "stop"
    /\ item.next_run_time <= curr_time

\* asset_monitor_scheduler lines 421-422: the item as it is written back
MonFired(item, curr_time) ==
    [item EXCEPT !.next_run_time = curr_time + item.interval]

\* the position of run_forever after the loop body for the item at index idx;
\* after the last item run_forever goes on to task_scheduler
AfterMonItem(idx, items) == IF idx >= MonCount(items) THEN "load" ELSE "mon_jobs"

\* asset_monitor_scheduler lines 426-428: the except clause is inside the
\* for loop
AfterMonException(idx, items) == AfterMonItem(idx, items)

\* asset_monitor_scheduler lines 378-381: curr_time and the list of all_job()
MonTickLoad ==
    /\ tickPc = "mon_load"
    /\ monCurr' = now
    /\ monItems' = mon
    /\ monIdx' = 1
    /\ excLog' = {}
    /\ tickPc' = IF MonCount(mon) = 0 THEN "load" ELSE "mon_jobs"
    /\ UNCHANGED <<task, queue, working, nextTaskId, sub, now, bootTime, sched,
                   run, nextRunId, tickItems, tickIdx, tickRuns, tickRunItem,
                   fireLog, sent, crashes, tickFire, opLog, monFireLog, monSent,
                   monTask>>
    /\ UNCHANGED <<monVars, extVars>>

\* asset_monitor_scheduler lines 403-418: the jobs whose fire the scheduler
\* hands to submit_task, which inserts the Task record and publishes its id;
\* the fire of any other job publishes a job message and inserts nothing
SubmitsTask(item) ==
    item.scope_type \in {"site_update_monitor", "wih_update_monitor"}

\* asset_monitor_scheduler lines 382-418: the status and due checks for one
\* item and the submit of its job message, which the broker takes or refuses
MonTickJob ==
    /\ tickPc = "mon_jobs"
    /\ LET m == monIdx
           item == monItems[m]
       IN  IF ShouldFireMonitor(item, monCurr)
           THEN \E accepted \in BOOLEAN :
                    IF accepted
                    THEN /\ Len(monFireLog) < MaxMonFires
                         /\ monSent' = [monSent EXCEPT ![m] = @ + 1]
                         /\ monFireLog' = Append(monFireLog, [job |-> m, at |-> monCurr])
                         /\ tickPc' = "mon_persist"
                         /\ IF SubmitsTask(item)
                            THEN /\ nextTaskId <= MaxTasks
                                 /\ task' = [task EXCEPT ![nextTaskId] =
                                              [status |-> "waiting", celery_id |-> "cid"]]
                                 /\ queue' = queue \cup {nextTaskId}
                                 /\ nextTaskId' = nextTaskId + 1
                                 /\ monTask' = [monTask EXCEPT ![nextTaskId] = m]
                            ELSE UNCHANGED <<task, queue, nextTaskId, monTask>>
                         /\ UNCHANGED <<monIdx, excLog>>
                    ELSE /\ excLog' = excLog \cup {<<"monitor", m>>}
                         /\ monIdx' = monIdx + 1
                         /\ tickPc' = AfterMonException(monIdx, monItems)
                         /\ UNCHANGED <<monSent, monFireLog, task, queue,
                                        nextTaskId, monTask>>
           ELSE /\ monIdx' = monIdx + 1
                /\ tickPc' = AfterMonItem(monIdx, monItems)
                /\ UNCHANGED <<monSent, monFireLog, excLog, task, queue,
                               nextTaskId, monTask>>
    /\ UNCHANGED <<working, sub, now, bootTime, sched, run, nextRunId, tickItems,
                   tickIdx, tickRuns, tickRunItem, fireLog, sent, crashes,
                   tickFire, opLog, monItems, monCurr>>
    /\ UNCHANGED <<monVars, extVars>>

\* asset_monitor_scheduler lines 421-424: find_one_and_replace(query, item),
\* which the store executes or answers with an error; it replaces nothing
\* when the document has been deleted
MonTickPersist ==
    /\ tickPc = "mon_persist"
    /\ LET m == monIdx
       IN  \E stored \in BOOLEAN :
            IF stored
            THEN /\ mon' = IF mon[m].status = "absent" THEN mon
                           ELSE [mon EXCEPT ![m] = MonFired(monItems[m], monCurr)]
                 /\ tickPc' = AfterMonItem(monIdx, monItems)
                 /\ UNCHANGED excLog
            ELSE /\ excLog' = excLog \cup {<<"monitor", m>>}
                 /\ tickPc' = AfterMonException(monIdx, monItems)
                 /\ UNCHANGED mon
    /\ monIdx' = monIdx + 1
    /\ UNCHANGED <<task, queue, working, nextTaskId, sub, now, bootTime, sched,
                   run, nextRunId, tickItems, tickIdx, tickRuns, tickRunItem,
                   fireLog, sent, crashes, tickFire, opLog, monItems, monCurr,
                   monFireLog, monSent, monTask>>
    /\ UNCHANGED <<nextMonId, monCache, redisEnabled, req, extVars>>

\* update_job_run: a worker that executes the job message of monitor job m
UpdateJobRun(m) ==
    /\ monSent[m] > 0
    /\ monSent' = [monSent EXCEPT ![m] = @ - 1]
    /\ mon' = [mon EXCEPT ![m] =
                [@ EXCEPT !.next_run_time = now + mon[m].interval,
                          !.last_run_time = now,
                          !.run_number = @ + 1]]
    /\ UNCHANGED <<task, queue, working, nextTaskId, sub, now, bootTime, sched,
                   run, nextRunId, tickPc, tickItems, tickIdx, tickRuns,
                   tickRunItem, fireLog, sent, crashes, tickLogVars, monItems,
                   monIdx, monCurr, monFireLog, monTask>>
    /\ UNCHANGED <<nextMonId, monCache, redisEnabled, req, extVars>>

\* update_job_run lines 338-352: the item as update_job_run writes it back
JobRunUpdated(item, t) ==
    [item EXCEPT !.next_run_time = t + item.interval,
                 !.last_run_time = t,
                 !.run_number = @ + 1]

ExecutorRunsStopped(item) == item.status # "absent"

\* tasks/scheduler.py domain_executors lines 60-68, ip_executor lines
\* 525-533: the worker goes on only when the job is in the store and is not
\* stopped
ExecutorRuns(item) == item.status \notin {"absent", "stop"}

\* tasks/scheduler.py domain_executors / ip_executor: a worker takes the job
\* message of the domain or ip job m; unless it returns at once, it inserts
\* the Task record of the scan (wrap_domain_executors line 131,
\* IPExecutor.insert_task_data), calls update_job_run and starts the scan.
\* The message of a deleted job is taken the same way (only domain and ip
\* jobs are deleted here, see DeleteJob)
DomainExecutors(m) ==
    /\ monSent[m] > 0
    /\ IF mon[m].status = "absent" THEN TRUE ELSE ~SubmitsTask(mon[m])
    /\ monSent' = [monSent EXCEPT ![m] = @ - 1]
    /\ IF ExecutorRuns(mon[m])
       THEN /\ nextTaskId <= MaxTasks
            /\ task' = [task EXCEPT ![nextTaskId] =
                         [status |-> "waiting", celery_id |-> "cid"]]
            /\ working' = working \cup {nextTaskId}
            /\ nextTaskId' = nextTaskId + 1
            /\ monTask' = [monTask EXCEPT ![nextTaskId] = m]
            /\ mon' = [mon EXCEPT ![m] = JobRunUpdated(mon[m], now)]
       ELSE UNCHANGED <<task, working, nextTaskId, monTask, mon>>
    /\ UNCHANGED <<queue, sub, now, bootTime, sched, run, nextRunId, tickPc,
                   tickItems, tickIdx, tickRuns, tickRunItem, fireLog, sent,
                   crashes, tickLogVars, monItems, monIdx, monCurr, monFireLog>>
    /\ UNCHANGED <<nextMonId, monCache, redisEnabled, req, extVars>>

\* tasks/asset_site.py asset_site_update_task, tasks/asset_wih.py
\* asset_wih_update_task: a worker takes the Task t of a site or wih job,
\* calls update_job_run for the job and starts the update
AssetSiteUpdateTask(t) ==
    /\ t \in queue
    /\ monTask[t] # 0
    /\ queue' = queue \ {t}
    /\ working' = working \cup {t}
    /\ task' = IF task[t].status = "absent" THEN task
               ELSE [task EXCEPT ![t].status = "running"]
    /\ monSent' = [monSent EXCEPT ![monTask[t]] = @ - 1]
    /\ mon' = IF mon[monTask[t]].status = "absent" THEN mon
              ELSE [mon EXCEPT ![monTask[t]] = JobRunUpdated(@, now)]
    /\ UNCHANGED <<nextTaskId, sub, now, bootTime, sched, run, nextRunId, tickPc,
                   tickItems, tickIdx, tickRuns, tickRunItem, fireLog, sent,
                   crashes, tickLogVars, monItems, monIdx, monCurr, monFireLog,
                   monTask>>
    /\ UNCHANGED <<nextMonId, monCache, redisEnabled, req, extVars>>

\* stop_job lines 203-208: the item as stop_job writes it back
Stopped(item) ==
    [item EXCEPT !.status = "stop", !.next_run_time = SysMaxsize]

\* recover_job line 223: current_time = int(time.time()) + 30
RecoverDelay == 30

\* recover_job lines 223-232: the item as recover_job writes it back
Recovered(item, t) ==
    [item EXCEPT !.status = "running",
                 !.next_run_time = (t + RecoverDelay) + item.interval]

\* routes/scheduler.py StopARLScheduler.post: the job exists and its status
\* is running, then stop_job(job_id)
StopJob(m) ==
    /\ Len(opLog) < MaxOps
    /\ mon[m].status = "running"
    /\ mon' = [mon EXCEPT ![m] = Stopped(mon[m])]
    /\ opLog' = Append(opLog, [job |-> m, status |-> "stop", applied |-> TRUE])
    /\ UNCHANGED <<submitVars, now, bootTime, sched, run, nextRunId, tickPc,
                   tickItems, tickIdx, tickRuns, tickRunItem, fireLog, sent,
                   crashes, tickFire, excLog, monTickVars>>
    /\ UNCHANGED <<nextMonId, monCache, redisEnabled, req, extVars>>

\* routes/scheduler.py RecoverARLScheduler.post: the job exists and its
\* status is stop, then recover_job(job_id)
RecoverJob(m) ==
    /\ Len(opLog) < MaxOps
    /\ mon[m].status = "stop"
    /\ mon' = [mon EXCEPT ![m] = Recovered(mon[m], now)]
    /\ opLog' = Append(opLog, [job |-> m, status |-> "running", applied |-> TRUE])
    /\ UNCHANGED <<submitVars, now, bootTime, sched, run, nextRunId, tickPc,
                   tickItems, tickIdx, tickRuns, tickRunItem, fireLog, sent,
                   crashes, tickFire, excLog, monTickVars>>
    /\ UNCHANGED <<nextMonId, monCache, redisEnabled, req, extVars>>

\* ------------------------------------------------------------------------
\* scheduler.py run_forever: the loop of the scheduler process
\* ------------------------------------------------------------------------
\* line 474: time.sleep(58); w is the time the work of the cycle took
TickSleep ==
    /\ tickPc = "sleep"
    /\ \E w \in 0..MaxWork :
        /\ now + SleepSeconds + w <= MaxTime
        /\ now' = now + SleepSeconds + w
    /\ tickPc' = "mon_load"
    /\ tickItems' = << >>
    /\ tickIdx' = 1
    /\ monItems' = [m \in MonIds |-> NoMon]
    /\ monIdx' = 1
    /\ monCurr' = 0
    /\ UNCHANGED <<task, queue, working, nextTaskId, sub, bootTime, sched, run,
                   nextRunId, tickRuns, tickRunItem, fireLog, sent, crashes,
                   tickLogVars, monFireLog, monSent, monTask>>
    /\ UNCHANGED <<monVars, extVars>>

\* the scheduler process is killed at any point of its cycle and started
\* again d seconds later: everything it held in memory is lost
Crash ==
    /\ crashes < MaxCrashes
    /\ tickPc # "mon_load"
    /\ \E d \in RestartDelays :
        /\ now + d <= MaxTime
        /\ now' = now + d
    /\ crashes' = crashes + 1
    /\ tickPc' = "mon_load"
    /\ tickItems' = << >>
    /\ tickIdx' = 1
    /\ tickRuns' = << >>
    /\ tickRunItem' = NoRunItem
    /\ tickFire' = NoFire
    /\ monItems' = [m \in MonIds |-> NoMon]
    /\ monIdx' = 1
    /\ monCurr' = 0
    /\ UNCHANGED <<task, queue, working, nextTaskId, sub, bootTime, sched, run,
                   nextRunId, fireLog, sent, excLog, opLog, monFireLog, monSent,
                   monTask>>
    /\ UNCHANGED <<monVars, extVars>>

\* the jobs an operator has scheduled when the scheduler process starts
RecurrentJobs ==
    {NewJob("recurrent_scan", c, 0, "task", 1, TRUE, "dingding", "finished") :
        c \in CronPeriods}
FutureJobs ==
    {NewJob("future_scan", 0, st, "risk_cruising", 1, TRUE, "dingding", "finished") :
        st \in FutureStarts}

InitCron ==
    /\ InitStores
    /\ InitExt
    /\ redisEnabled = FALSE
    /\ now \in StartTimes
    /\ bootTime = now
    /\ sched \in [Jobs -> RecurrentJobs \cup FutureJobs]
    /\ \A j \in Jobs : sched[j] \in (IF j % 2 = 1 THEN RecurrentJobs ELSE FutureJobs)

NextCron ==
    \/ MonTickLoad
    \/ TickLoad
    \/ TickJob
    \/ TickDispatch
    \/ TickRunsLoad
    \/ RunEval
    \/ RunRaise
    \/ RunWrite
    \/ TickSleep
    \/ Crash

SpecCron == InitCron /\ [][NextCron]_vars

\* ------------------------------------------------------------------------
\* Properties of the cron evaluation
\* ------------------------------------------------------------------------
\* the entries of the fire log that belong to job j
FiresOf(j) == {i \in 1..Len(fireLog) : fireLog[i].job = j}

\* a step of task_scheduler's loop body
IsTickJobStep ==
    tickPc = "jobs" /\ (tickIdx' = tickIdx + 1 \/ tickPc' = "dispatch")

\* C2: on a tick, a job that is stored with status scheduled and type
\* recurrent is fired if and only if the next occurrence of its cron is less
\* than 60 seconds away and more than 180 seconds have passed since the
\* last_run_time of its last fire.
C2_RecurrentFiredIffDue ==
    [][IsTickJobStep =>
        LET job == sched[tickIdx]
        IN  (job.status = "scheduled" /\ job.schedule_type = "recurrent_scan")
            => ((Len(fireLog') = Len(fireLog) + 1)
                <=> (/\ NextSec(job.cron, now) < 60
                     /\ now - job.last_run_time > 180))]_vars

\* C2 witness: a job was fired again after its cool-down had passed, and the
\* tick that follows has just left it alone although the next occurrence is
\* inside the lookahead window, because the cool-down has not passed
C2_Witness ==
    \E j \in Jobs :
        /\ tickPc \in {"jobs", "runs"} /\ tickIdx > j
        /\ sched[j].status = "scheduled"
        /\ sched[j].schedule_type = "recurrent_scan"
        /\ NextSec(sched[j].cron, now) < 60
        /\ now - sched[j].last_run_time > 0
        /\ now - sched[j].last_run_time <= 180
        /\ \E a, b \in FiresOf(j) :
            /\ fireLog[b].at - fireLog[a].at > 180
            /\ fireLog[b].at = sched[j].last_run_time

\* C3: whatever the distance of the ticks, no recurrent job is fired twice
\* for the same cron occurrence.
C3_OneFirePerOccurrence ==
    \A j \in Jobs : \A a, b \in FiresOf(j) :
        (sched[j].schedule_type = "recurrent_scan" /\ a # b)
            => fireLog[a].occ # fireLog[b].occ

\* C3 witness: a tick has evaluated a job whose next occurrence is the one an
\* earlier tick has already fired, and did not fire it again
C3_Witness ==
    \E j \in Jobs : \E a \in FiresOf(j) :
        /\ sched[j].schedule_type = "recurrent_scan"
        /\ tickPc \in {"jobs", "runs"} /\ tickIdx > j
        /\ now > fireLog[a].at
        /\ fireLog[a].occ = now + NextSec(sched[j].cron, now)
        /\ Cardinality(FiresOf(j)) = 1

\* the time of the last fire of job j before time t, 0 when there is none
LastFireBefore(j, t) ==
    LET S == {fireLog[i].at : i \in {k \in FiresOf(j) : fireLog[k].at < t}}
    IN  IF S = {} THEN 0 ELSE CHOOSE x \in S : \A y \in S : y <= x

\* C4: while the scheduler process runs without being killed, so that its
\* ticks are a 58 s sleep plus the work of the cycle apart, every cron
\* occurrence of a scheduled recurrent job that has passed since the
\* scheduler started, and that came more than 180 s after the previous fire
\* of the job, was fired by some tick.
C4_NoOccurrenceLost ==
    crashes = 0 =>
        \A j \in Jobs :
            (sched[j].status = "scheduled" /\ sched[j].schedule_type = "recurrent_scan")
            => \A o \in (bootTime + 1)..now :
                (o % sched[j].cron = 0 /\ o - LastFireBefore(j, o) > 180)
                    => \E a \in FiresOf(j) : fireLog[a].occ = o

\* ------------------------------------------------------------------------
\* The scheduler loop together with the worker pool
\* ------------------------------------------------------------------------
\* notification settings an operator can give a ScheduledJob
NotifyConfigs ==
    {[enable |-> FALSE, channel |-> "dingding", on |-> "always"],
     [enable |-> TRUE, channel |-> "email", on |-> "always"],
     [enable |-> TRUE, channel |-> "dingding", on |-> "always"],
     [enable |-> TRUE, channel |-> "dingding", on |-> "finished"],
     [enable |-> TRUE, channel |-> "dingding", on |-> "failed"]}

\* the jobs of one operator: all with the same notification settings, the
\* odd ones recurrent, the even ones future; the first one has two targets
RunJob(j, cfg) ==
    IF j % 2 = 1
    THEN NewJob("recurrent_scan", 300, 0, "task", IF j = 1 THEN 2 ELSE 1,
                cfg.enable, cfg.channel, cfg.on)
    ELSE NewJob("future_scan", 0, StartBase + 100, "risk_cruising", 1,
                cfg.enable, cfg.channel, cfg.on)

\* the scheduler starts when every job is due
InitRun ==
    /\ InitStores
    /\ InitExt
    /\ redisEnabled = FALSE
    /\ now = StartBase + 241
    /\ bootTime = now
    /\ \E cfg \in NotifyConfigs : sched = [j \in Jobs |-> RunJob(j, cfg)]

NextRun ==
    \/ MonTickLoad
    \/ TickLoad
    \/ TickJob
    \/ TickDispatch
    \/ TickRunsLoad
    \/ RunEval
    \/ RunRaise
    \/ RunWrite
    \/ TickSleep
    \/ Crash
    \/ \E t \in TaskIds : WorkerStart(t)
    \/ \E t \in TaskIds : WorkerFinish(t)

SpecRun == InitRun /\ [][NextRun]_vars

\* ------------------------------------------------------------------------
\* Properties of the ScheduleRun reconciliation
\* ------------------------------------------------------------------------
\* C5: the stored push_status of a run is pending as long as the run is
\* running, becomes one of success, error, skip in the step that closes the
\* run, and from then on no step changes the run document or delivers a
\* notification for it: reconciling a finished or error run is a no-op.
C5_PushStatusResolvedOnce ==
    /\ [](\A r \in RunIds :
            /\ run[r].status = "running" => run[r].push_status = "pending"
            /\ run[r].status \in {"finished", "error"}
                => run[r].push_status \in {"success", "error", "skip"})
    /\ [][\A r \in RunIds :
            run[r].status \in {"finished", "error"}
                => (run'[r] = run[r] /\ sent'[r] = sent[r])]_vars

\* C5 witness: a run was closed with push_status success and one
\* notification, and a later reconciliation pass has completed since
C5_Witness ==
    \E r \in RunIds :
        /\ run[r].status = "finished"
        /\ run[r].push_status = "success"
        /\ sent[r] = 1
        /\ tickPc = "sleep"
        /\ now > run[r].end_time

\* C6: a notification is delivered only for a run whose terminal status and
\* push_status are already stored, and no run is notified a second time,
\* wherever the scheduler process is killed.
C6_PersistBeforeNotify ==
    \A r \in RunIds :
        /\ sent[r] > 0 => (run[r].status \in {"finished", "error"}
                           /\ run[r].push_status # "pending")
        /\ sent[r] <= 1

\* C19: a reconciliation pass that ends at a run_item because its handling
\* raised has no other run_item of its snapshot left: every other running
\* run was reconciled in the same pass.
C19_RunExceptionIsolated ==
    [][(tickPc = "run_eval" /\ tickPc' = "sleep" /\ crashes' = crashes)
            => Len(tickRuns) = 1]_vars

\* ------------------------------------------------------------------------
\* The scheduler loop together with the operator's stop and recover requests
\* ------------------------------------------------------------------------
\* a cron expression CronTab does not parse
BadCron == 0

\* the jobs of the store when the scheduler starts: the odd ones recurrent,
\* one of them possibly with an expression that does not parse, the even
\* ones future
SchedJob(j, cron, start) ==
    IF j % 2 = 1
    THEN NewJob("recurrent_scan", cron, 0, "task", 1, TRUE, "dingding", "finished")
    ELSE NewJob("future_scan", 0, start, "risk_cruising", 1, TRUE, "dingding", "finished")

InitSched ==
    /\ InitStores
    /\ InitExt
    /\ redisEnabled = FALSE
    /\ now = StartBase + 50
    /\ bootTime = now
    /\ \E cron \in CronPeriods \cup {BadCron} : \E start \in FutureStarts :
        sched = [j \in Jobs |-> SchedJob(j, cron, start)]

NextSched ==
    \/ MonTickLoad
    \/ TickLoad
    \/ TickJob
    \/ TickDispatch
    \/ TickRunsLoad
    \/ RunEval
    \/ RunRaise
    \/ RunWrite
    \/ TickSleep
    \/ \E j \in Jobs : \E status \in {"stop", "scheduled"} :
            ChangeTaskScheduleStatus(j, status)

SpecSched == InitSched /\ [][NextSched]_vars

\* ------------------------------------------------------------------------
\* Properties of the firing of ScheduledJobs
\* ------------------------------------------------------------------------
\* the step of the loop body that fires the job at tickIdx: it writes the
\* fired item to the store and goes on to the dispatch
IsFireStep == tickPc = "jobs" /\ tickPc' = "dispatch"

\* the step that runs submit_task_schedule for the firing in tickFire
IsDispatchStep == tickPc = "dispatch" /\ tickPc' # "dispatch" /\ crashes' = crashes

\* C13: the step that fires a job stores the updated record (run_number
\* incremented; recurrent: last_run_time set to the time of the fire and
\* next_run_date advanced beyond it; future: status done) and submits no
\* Task; Tasks enter the store and the queue only in the dispatch step that
\* follows it, when the stored record already carries the run_number of the
\* firing.
C13_RecordWrittenBeforeSubmit ==
    /\ [][IsFireStep =>
            LET j == tickIdx
            IN  /\ sched'[j].run_number = sched[j].run_number + 1
                /\ sched[j].schedule_type = "recurrent_scan"
                    => (/\ sched'[j].last_run_time = now
                        /\ sched'[j].next_run_date > now)
                /\ sched[j].schedule_type = "future_scan"
                    => sched'[j].status = "done"
                /\ task' = task /\ queue' = queue]_vars
    /\ [][(queue' # queue \/ task' # task) =>
            /\ IsDispatchStep
            /\ sched[tickFire.job].run_number = tickFire.item.run_number]_vars
    /\ [][tickPc' = "dispatch" => tickPc \in {"jobs", "dispatch"}]_vars

\* C13 witness: the Tasks of a recurrent and of a future firing are in the
\* queue, and the stored records carry the run numbers of the two firings
C13_Witness ==
    \E r1, r2 \in RunIds :
        /\ run[r1].status = "running" /\ run[r2].status = "running"
        /\ sched[run[r1].schedule_id].schedule_type = "recurrent_scan"
        /\ sched[run[r2].schedule_id].schedule_type = "future_scan"
        /\ sched[run[r1].schedule_id].run_number = run[r1].run_number
        /\ sched[run[r1].schedule_id].last_run_time > 0
        /\ sched[run[r2].schedule_id].run_number = run[r2].run_number
        /\ sched[run[r2].schedule_id].status = "done"
        /\ Range(run[r1].task_ids) \cup Range(run[r2].task_ids) \subseteq queue

\* the requests of the operator that have set job j to scheduled again
ResetsOf(j) ==
    {i \in 1..Len(opLog) :
        opLog[i].job = j /\ opLog[i].status = "scheduled" /\ opLog[i].applied}

\* C14: on a tick, a future job that the tick has read with status scheduled
\* is fired if and only if 0 < start_time <= now, and the fire stores status
\* done; the job is fired at most once more than the operator has set it to
\* scheduled again.
C14_FutureFiredOnce ==
    /\ [][IsTickJobStep =>
            LET job == tickItems[tickIdx]
            IN  (job.status = "scheduled" /\ job.schedule_type = "future_scan")
                => /\ (Len(fireLog') = Len(fireLog) + 1)
                        <=> (0 < job.start_time /\ job.start_time <= now)
                   /\ (Len(fireLog') = Len(fireLog) + 1)
                        => sched'[tickIdx].status = "done"]_vars
    /\ [](\A j \in Jobs :
            sched[j].schedule_type = "future_scan"
                => Cardinality(FiresOf(j)) <= 1 + Cardinality(ResetsOf(j)))

\* C14 witness: a future job was fired when its start_time had come, a later
\* tick has left it alone, the operator has then set it to scheduled again
\* and it was fired a second time
C14_Witness ==
    \E j \in Jobs : \E a, b \in FiresOf(j) :
        /\ sched[j].schedule_type = "future_scan"
        /\ sched[j].status = "done"
        /\ fireLog[a].at >= sched[j].start_time
        /\ fireLog[b].at > fireLog[a].at + SleepSeconds
        /\ Cardinality(ResetsOf(j)) = 1
        /\ Cardinality(FiresOf(j)) = 2

\* C15: the step that fires a job finds it stored with status scheduled, so
\* a job stored as done, error or stop is fired by no tick; and the request
\* that sets a job to scheduled again stores the next run date computed from
\* the cron expression (recurrent) or the stored start date (future).
C15_TerminalNeverFired ==
    /\ [][IsFireStep => sched[tickIdx].status = "scheduled"]_vars
    /\ [][\A j \in Jobs :
            (sched[j].status \in {"done", "stop"} /\ sched'[j].status = "scheduled")
                => sched'[j].next_run_date =
                        IF sched[j].schedule_type = "recurrent_scan"
                        THEN (now + 61) + NextSec(sched[j].cron, now + 61) - 60
                        ELSE sched[j].start_time]_vars

\* the step of the loop body that raises at CronTab(item["cron"])
IsBadCronStep ==
    /\ IsTickJobStep
    /\ tickItems[tickIdx].status = "scheduled"
    /\ tickItems[tickIdx].schedule_type = "recurrent_scan"
    /\ tickItems[tickIdx].cron = 0

\* the dispatch step in which get_options_by_policy_id returned nothing: no
\* submit_task was called
IsNoPolicyStep == IsDispatchStep /\ nextTaskId' = nextTaskId

\* the step that serves the operator's request to schedule job j again
IsResetRequest(j) ==
    /\ Len(opLog') = Len(opLog) + 1
    /\ opLog'[Len(opLog')].job = j
    /\ opLog'[Len(opLog')].status = "scheduled"

IsDispatchFailStep == IsDispatchStep /\ nextTaskId' > nextTaskId /\ run' = run

\* C17: a dispatch failure leaves no record of the Task whose submit failed,
\* reaches the loop body as an exception, keeps the bookkeeping the fire
\* step has stored, and leaves a job the operator has not touched scheduled,
\* so that a later cycle fires it again.
C17_DispatchFailureRetried ==
    [][IsDispatchFailStep =>
        LET j == tickFire.job
        IN  /\ task'[nextTaskId' - 1] = NoTask
            /\ <<"job", j>> \in excLog'
            /\ sched'[j] = sched[j]
            /\ (\A i \in 1..Len(opLog) : opLog[i].job # j)
                    => sched'[j].status = "scheduled"]_vars

\* ------------------------------------------------------------------------
\* routes/scheduler.py and scheduler.py: the add-monitor requests
\* ------------------------------------------------------------------------
\* the 'domain' argument of a request after domain.split(","): a target, a
\* target with a leading blank, a target named twice, one ip, two ips
DomainLists ==
    {<<"a.com">>, <<" a.com">>, <<"a.com", "a.com">>,
     <<"1.1.1.1">>, <<"1.1.1.1", "2.2.2.2">>}
\* the 'interval' argument: the values around the minimum
Intervals == {MinInterval - 1, MinInterval}

\* str.strip()
Strip(x) == IF x = " a.com" THEN "a.com" ELSE x

IntervalNotAboveMinimum(interval) == interval <= MinInterval

\* lines 161, 539, 610: if interval < 3600 * 6
IntervalTooShort(interval) == interval < MinInterval

\* utils/arl.py scope_data_by_id: the scope document exists
ScopeExists(s) == s \in DOMAIN ScopeData

\* the MonitorJob documents of the store
MonJobs == {m \in MonIds : mon[m].status # "absent"}

HaveSameOfAnyScope(s, type) ==
    \E m \in MonJobs : mon[m].scope_id # s /\ mon[m].scope_type = type

\* helpers/scheduler.py have_same_site_update_monitor and
\* have_same_wih_update_monitor: find_one({scope_id, scope_type})
HaveSameMonitor(s, type) ==
    \E m \in MonJobs : mon[m].scope_id = s /\ mon[m].scope_type = type

\* utils/arl.py get_monitor_domain_by_id._loader: the 'domain' field of
\* every document of the scope
LoadMonitorDomain(s) == {mon[m].domain : m \in {k \in MonJobs : mon[k].scope_id = s}}

\* utils/cache.py cached_call: the cached value when redis holds one,
\* the loader's value otherwise
MonitorDomain(s) ==
    IF redisEnabled /\ monCache[s].hit THEN monCache[s].data ELSE LoadMonitorDomain(s)

\* utils/cache.py cached_call: a miss stores the loader's value
CacheAfterRead(s) ==
    IF redisEnabled /\ ~monCache[s].hit
    THEN [monCache EXCEPT ![s] = [hit |-> TRUE, data |-> LoadMonitorDomain(s)]]
    ELSE monCache

\* scheduler.py add_job, add_asset_site_monitor_job, add_asset_wih_monitor_job:
\* the document that is inserted
NewMonitor(s, domain, type, interval) ==
    [status |-> "running", scope_id |-> s, domain |-> domain, scope_type |-> type,
     interval |-> interval, next_run_time |-> now + FirstRunDelay,
     last_run_time |-> 0, run_number |-> 0]

\* the request ends without an insert
Reject(c, kind, s, interval, result) ==
    req' = [req EXCEPT ![c] = [pc |-> "done", kind |-> kind, scope |-> s,
                               interval |-> interval, todo |-> << >>,
                               result |-> result]]

\* the request has passed its checks and goes on to insert the jobs of todo
Accept(c, kind, s, interval, todo) ==
    req' = [req EXCEPT ![c] = [pc |-> "insert", kind |-> kind, scope |-> s,
                               interval |-> interval, todo |-> todo,
                               result |-> "none"]]

\* the first target of the list the route rejects, 0 when it accepts all:
\* lines 185-195, the stripped target is checked against scope_array and
\* against the monitored domains
FirstBad(domains, s, monitored) ==
    LET bad == {i \in 1..Len(domains) :
                    \/ Strip(domains[i]) \notin ScopeData[s].scope_array
                    \/ <<Strip(domains[i])>> \in monitored}
    IN  IF bad = {} THEN 0 ELSE CHOOSE i \in bad : \A k \in bad : i <= k

\* AddARLScheduler.post lines 153-195: the checks of the request
AddARLScheduler(c) ==
    /\ UNCHANGED extVars
    /\ req[c].pc = "idle"
    /\ \E s \in ScopeIds, interval \in Intervals, domains \in DomainLists,
          policyFound \in BOOLEAN :
        IF IntervalTooShort(interval)
        THEN Reject(c, "arl", s, interval, "IntervalLessThan3600") /\ monCache' = monCache
        ELSE /\ monCache' = CacheAfterRead(s)
             /\ IF ~ScopeExists(s)
                THEN Reject(c, "arl", s, interval, "NotFoundScopeID")
                ELSE IF ~policyFound
                THEN Reject(c, "arl", s, interval, "PolicyIDNotFound")
                ELSE LET bad == FirstBad(domains, s, MonitorDomain(s))
                     IN  IF bad # 0
                         THEN IF Strip(domains[bad]) \notin ScopeData[s].scope_array
                              THEN Reject(c, "arl", s, interval, "DomainNotFoundViaScope")
                              ELSE Reject(c, "arl", s, interval, "DomainViaJob")
                         ELSE IF ScopeData[s].scope_type = "domain"
                         THEN Accept(c, "arl", s, interval,
                                     [i \in 1..Len(domains) |->
                                        [domain |-> <<domains[i]>>, type |-> "domain"]])
                         ELSE Accept(c, "arl", s, interval,
                                     <<[domain |-> domains, type |-> "ip"]>>)
    /\ UNCHANGED <<mon, nextMonId, redisEnabled>>
    /\ UNCHANGED <<submitVars, schedVars>>

\* AddSiteScheduler.post lines 533-551 (type site_update_monitor) and
\* AddWihScheduler.post lines 604-622 (type wih_update_monitor)
AddUpdateScheduler(c, kind, type, domain) ==
    /\ UNCHANGED extVars
    /\ req[c].pc = "idle"
    /\ \E s \in ScopeIds, interval \in Intervals :
        IF IntervalTooShort(interval)
        THEN Reject(c, kind, s, interval, "IntervalLessThan3600")
        ELSE IF ~ScopeExists(s)
        THEN Reject(c, kind, s, interval, "NotFoundScopeID")
        ELSE IF HaveSameMonitor(s, type)
        THEN Reject(c, kind, s, interval, "DomainSiteViaJob")
        ELSE Accept(c, kind, s, interval, <<[domain |-> <<domain>>, type |-> type]>>)
    /\ UNCHANGED <<mon, nextMonId, monCache, redisEnabled>>
    /\ UNCHANGED <<submitVars, schedVars>>

AddSiteScheduler(c) ==
    AddUpdateScheduler(c, "site", "site_update_monitor", "site-update")

AddWihScheduler(c) ==
    AddUpdateScheduler(c, "wih", "wih_update_monitor", "wih-update")

\* scheduler.py add_job line 105, add_asset_site_monitor_job line 139,
\* add_asset_wih_monitor_job line 173: conn('scheduler').insert(item)
AddJobInsert(c) ==
    /\ UNCHANGED extVars
    /\ req[c].pc = "insert"
    /\ nextMonId <= MaxMonitors
    /\ LET job == Head(req[c].todo)
       IN  mon' = [mon EXCEPT ![nextMonId] =
                    NewMonitor(req[c].scope, job.domain, job.type, req[c].interval)]
    /\ nextMonId' = nextMonId + 1
    /\ req' = [req EXCEPT ![c] =
                IF Tail(req[c].todo) = << >>
                THEN [req[c] EXCEPT !.pc = "done", !.todo = << >>,
                                    !.result = "Success"]
                ELSE [req[c] EXCEPT !.todo = Tail(req[c].todo)]]
    /\ UNCHANGED <<monCache, redisEnabled>>
    /\ UNCHANGED <<submitVars, schedVars>>

\* the redis entry of a scope expires (setex with expire=120)
CacheExpire(s) ==
    /\ UNCHANGED extVars
    /\ monCache[s].hit
    /\ monCache' = [monCache EXCEPT ![s] = NoCache]
    /\ UNCHANGED <<mon, nextMonId, redisEnabled, req>>
    /\ UNCHANGED <<submitVars, schedVars>>

\* no ScheduledJob matters to the routes.  Redis is enabled: as an entry can
\* expire at any moment, this covers every answer a deployment without
\* redis gives
InitMonitor ==
    /\ InitStores
    /\ InitExt
    /\ redisEnabled = TRUE
    /\ now = StartBase
    /\ bootTime = now
    /\ sched = [j \in Jobs |->
                [NewJob("future_scan", 0, 0, "task", 1, TRUE, "dingding", "finished")
                    EXCEPT !.status = "stop"]]

NextMonitor ==
    \/ \E c \in Requests : AddARLScheduler(c)
    \/ \E c \in Requests : AddSiteScheduler(c)
    \/ \E c \in Requests : AddWihScheduler(c)
    \/ \E c \in Requests : AddJobInsert(c)
    \/ \E s \in ScopeIds : CacheExpire(s)

SpecMonitor == InitMonitor /\ [][NextMonitor]_vars

\* the job type a site or wih request adds
TypeOfKind(kind) ==
    IF kind = "site" THEN "site_update_monitor" ELSE "wih_update_monitor"

\* the request c is received by its route in this step
IsReceived(c) == req[c].pc = "idle" /\ req'[c].pc # "idle"

\* C7: a request to add a site_update_monitor or a wih_update_monitor for a
\* scope that already holds a job of that type is answered with an error by
\* the step that receives it, and that step leaves the scheduler store as
\* it was.
C7_SecondUpdateMonitorRejected ==
    [][\A c \in Requests :
        (/\ IsReceived(c)
         /\ req'[c].kind \in {"site", "wih"}
         /\ \E m \in MonIds :
                /\ mon[m].status # "absent"
                /\ mon[m].scope_id = req'[c].scope
                /\ mon[m].scope_type = TypeOfKind(req'[c].kind))
        => /\ req'[c].pc = "done"
           /\ req'[c].result # "Success"
           /\ mon' = mon
           /\ nextMonId' = nextMonId]_vars

\* a site or wih request was rejected because its scope holds the job
C7_Witness ==
    \E c \in Requests :
        /\ req[c].pc = "done"
        /\ req[c].kind \in {"site", "wih"}
        /\ req[c].result = "DomainSiteViaJob"
        /\ Cardinality({m \in MonIds :
                /\ mon[m].status # "absent"
                /\ mon[m].scope_id = req[c].scope
                /\ mon[m].scope_type = TypeOfKind(req[c].kind)}) = 1

\* C8: in every reachable state, concurrent requests included, a scope holds
\* at most one site_update_monitor job and at most one wih_update_monitor
\* job.
C8_AtMostOneUpdateMonitorPerScope ==
    \A m1, m2 \in MonIds :
        (/\ mon[m1].status # "absent"
         /\ mon[m2].status # "absent"
         /\ mon[m1].scope_type \in {"site_update_monitor", "wih_update_monitor"}
         /\ mon[m1].scope_type = mon[m2].scope_type
         /\ mon[m1].scope_id = mon[m2].scope_id)
        => m1 = m2

\* the targets a domain/ip job covers
TargetsOf(m) == {Strip(mon[m].domain[i]) : i \in 1..Len(mon[m].domain)}

\* C9: no two domain/ip MonitorJobs of one scope cover the same target,
\* whatever requests were made.
C9_NoDuplicateTarget ==
    \A m1, m2 \in MonIds :
        (/\ m1 # m2
         /\ mon[m1].status # "absent"
         /\ mon[m2].status # "absent"
         /\ mon[m1].scope_type \in {"domain", "ip"}
         /\ mon[m2].scope_type \in {"domain", "ip"}
         /\ mon[m1].scope_id = mon[m2].scope_id)
        => TargetsOf(m1) \cap TargetsOf(m2) = {}

\* C10: every add-monitor request with interval < 21600 is answered with the
\* interval error by the step that receives it and that step creates no job,
\* a request with interval = 21600 is never answered with the interval
\* error, and no stored job has an interval below 21600.
C10_ShortIntervalRejected ==
    /\ [][\A c \in Requests :
            IsReceived(c) =>
                /\ req'[c].interval < 21600 =>
                        /\ req'[c].pc = "done"
                        /\ req'[c].result = "IntervalLessThan3600"
                        /\ mon' = mon
                        /\ nextMonId' = nextMonId
                /\ req'[c].interval = 21600 =>
                        req'[c].result # "IntervalLessThan3600"]_vars
    /\ [](\A m \in MonIds : mon[m].status # "absent" => mon[m].interval >= 21600)

\* one request was rejected for its interval of 21599 seconds, another with
\* 21600 seconds has stored its job
C10_Witness ==
    \E c1, c2 \in Requests :
        /\ req[c1].pc = "done"
        /\ req[c1].interval = 21599
        /\ req[c1].result = "IntervalLessThan3600"
        /\ req[c2].pc = "done"
        /\ req[c2].interval = 21600
        /\ req[c2].result = "Success"
        /\ \E m \in MonIds : mon[m].status # "absent" /\ mon[m].interval = 21600

\* ------------------------------------------------------------------------
\* tasks/scheduler.py DomainExecutor: one cycle of a domain MonitorJob
\* ------------------------------------------------------------------------
\* the domains a scan can report and the asset_domain table can hold
Domains == {"a.x.com", "b.x.com", "c.y.com"}
\* the IP addresses of the resolver's answers
IpSets == {{}, {"1.2.3.4"}, {"5.6.7.8"}, {"1.2.3.4", "5.6.7.8"}}
\* what a random label under a suffix resolves to: nothing without a wildcard
\* record
WildSets == {{}, {"1.2.3.4"}}

\* utils.domain.cut_first_name: the domain without its first label
CutFirstName(d) == IF d = "c.y.com" THEN "y.com" ELSE "x.com"
Suffixes == {CutFirstName(d) : d \in Domains}

\* the scan output, the asset_domain table of the scope and the resolver's
\* answers of one cycle
InitDiff ==
    /\ InitStores
    /\ redisEnabled = FALSE
    /\ now = StartBase
    /\ bootTime = now
    /\ sched = [j \in Jobs |->
                [NewJob("future_scan", 0, 0, "task", 1, TRUE, "dingding", "finished")
                    EXCEPT !.status = "stop"]]
    /\ \E discovered \in SUBSET Domains, baseline \in SUBSET Domains,
          dns \in [Domains -> IpSets], wild \in [Suffixes -> WildSets] :
            dnsEnv = [discovered |-> discovered, baseline |-> baseline,
                      dns |-> dns, wild |-> wild]
    /\ dx = [IdleDx EXCEPT !.pc = "start"]
    /\ DedupIdle
    /\ RouteIdle
    /\ IpIdle
    /\ NameIdle
    /\ ExecIdle

\* run lines 220-222: domain_fetch() and the domains of domain_info_list
DomainFetch ==
    /\ dx.pc = "start"
    /\ dx' = [dx EXCEPT !.pc = "fetched", !.domain_set = dnsEnv.discovered]
    /\ UNCHANGED <<submitVars, schedVars, monVars, dnsEnv, dedupVars, routeVars,
                   ipVars, nameVars, execVars>>

\* run lines 225-229: set_scope_domain() and the set difference
SetScopeDomain ==
    /\ dx.pc = "fetched"
    /\ dx' = [dx EXCEPT !.pc = "diffed",
                        !.scope_domain_set = dnsEnv.baseline,
                        !.new_domain_set = dx.domain_set \ dnsEnv.baseline]
    /\ UNCHANGED <<submitVars, schedVars, monVars, dnsEnv, dedupVars, routeVars,
                   ipVars, nameVars, execVars>>

\* set_wildcard_ip_set: a random label under the parent of every new domain
\* is resolved, the answers are united
SetWildcardIpSet ==
    /\ dx.pc = "diffed"
    /\ LET cut_set == {CutFirstName(d) : d \in dx.new_domain_set}
       IN  dx' = [dx EXCEPT !.pc = "probed",
                            !.wildcard_ip_set = UNION {dnsEnv.wild[c] : c \in cut_set}]
    /\ UNCHANGED <<submitVars, schedVars, monVars, dnsEnv, dedupVars, routeVars,
                   ipVars, nameVars, execVars>>

\* DomainTask.build_domain_info: the new domains that resolve, with ip_list
BuildDomainInfo(domains) == {d \in domains : dnsEnv.dns[d] # {}}

ClearWildcardOnlyIfAllIps(info_list, wildcard_ip_set) ==
    {d \in info_list : ~(dnsEnv.dns[d] \subseteq wildcard_ip_set)}

\* clear_wildcard_domain_info: an info is dropped when
\* wildcard_ip_set & set(info.ip_list) is not empty
ClearWildcardDomainInfo(info_list, wildcard_ip_set) ==
    {d \in info_list : wildcard_ip_set \cap dnsEnv.dns[d] = {}}

\* set_domain_info_list and run lines 238-254.  clear_domain_info_by_record
\* drops infos whose DNS record repeats: it keeps some subset
SetDomainInfoList ==
    /\ dx.pc = "probed"
    /\ \E kept \in SUBSET BuildDomainInfo(dx.new_domain_set) :
        LET new == IF dx.wildcard_ip_set # {}
                   THEN ClearWildcardDomainInfo(kept, dx.wildcard_ip_set)
                   ELSE kept
        IN  dx' = [dx EXCEPT !.pc = "done", !.result = new]
    /\ UNCHANGED <<submitVars, schedVars, monVars, dnsEnv, dedupVars, routeVars,
                   ipVars, nameVars, execVars>>

NextDiff ==
    \/ DomainFetch
    \/ SetScopeDomain
    \/ SetWildcardIpSet
    \/ SetDomainInfoList

SpecDiff == InitDiff /\ [][NextDiff]_vars

\* C11: the result of a cycle holds only domains of the scan output that are
\* not in the baseline of the scope, and no domain one of whose addresses is
\* the answer to a random label under the parent suffix of some candidate
\* new domain.
C11_OnlyNewNonWildcardDomains ==
    dx.pc = "done" =>
        LET candidate == dnsEnv.discovered \ dnsEnv.baseline
            wildcard == UNION {dnsEnv.wild[CutFirstName(d)] : d \in candidate}
        IN  /\ dx.result \subseteq candidate
            /\ \A d \in dx.result : dnsEnv.dns[d] \cap wildcard = {}

\* the baseline is empty, a.x.com and b.x.com are discovered and resolve to
\* the address the wildcard probe of x.com resolves to: the result is empty
C11_Witness ==
    /\ dx.pc = "done"
    /\ dnsEnv.baseline = {}
    /\ dnsEnv.discovered = {"a.x.com", "b.x.com"}
    /\ dnsEnv.wild["x.com"] = {"1.2.3.4"}
    /\ dnsEnv.dns["a.x.com"] = {"1.2.3.4"}
    /\ dnsEnv.dns["b.x.com"] = {"1.2.3.4"}
    /\ dx.result = {}

\* ------------------------------------------------------------------------
\* tasks/github.py GithubTaskMonitor: the dedup store of the GitHub monitors
\* ------------------------------------------------------------------------
\* a search result: its content hash and whether filter_result drops it
GhItems == [hash : GhHashes, filtered : BOOLEAN]
\* self.results of one search: one or two results
GhResultLists == {<<a>> : a \in GhItems} \cup {<<a, b>> : a \in GhItems, b \in GhItems}

InitMd5ListAllScopes(sid) == {k[2] : k \in githubHash}

\* init_md5_list: find({"github_scheduler_id": self.scheduler_id})
InitMd5List(sid) == {k[2] : k \in {x \in githubHash : x[1] = sid}}

\* run lines 555-561: init_md5_list() and search_result().  The runs of one
\* monitor follow one another, runs of different monitors overlap
GhStart(r) ==
    /\ gh[r].pc = "idle"
    /\ \E sid \in GhSchedulers, results \in GhResultLists :
        /\ \A o \in GhRuns : gh[o].sid # sid
        /\ gh' = [gh EXCEPT ![r] = [pc |-> "save", sid |-> sid,
                                    hash_md5_list |-> InitMd5List(sid),
                                    results |-> results, idx |-> 1, cnt |-> 0]]
    /\ UNCHANGED <<githubHash, ghResult>>
    /\ UNCHANGED <<submitVars, schedVars, monVars, diffVars, routeVars, ipVars, nameVars, execVars>>

\* save_mongo lines 291-315: the body of the loop for one result
GhSaveOne(r) ==
    /\ gh[r].pc = "save"
    /\ gh[r].idx <= Len(gh[r].results)
    /\ LET result == gh[r].results[gh[r].idx]
           key == <<gh[r].sid, result.hash>>
       IN  IF result.hash \in gh[r].hash_md5_list
           THEN /\ gh' = [gh EXCEPT ![r].idx = @ + 1]
                /\ UNCHANGED <<githubHash, ghResult>>
           ELSE /\ githubHash' = githubHash \cup {key}
                /\ IF result.filtered
                   THEN /\ ghResult' = ghResult
                        /\ gh' = [gh EXCEPT ![r].idx = @ + 1,
                                            ![r].hash_md5_list = @ \cup {result.hash}]
                   ELSE /\ ghResult' = [ghResult EXCEPT ![key] = @ + 1]
                        /\ gh' = [gh EXCEPT ![r].idx = @ + 1, ![r].cnt = @ + 1,
                                            ![r].hash_md5_list = @ \cup {result.hash}]
    /\ UNCHANGED <<submitVars, schedVars, monVars, diffVars, routeVars, ipVars, nameVars, execVars>>

\* save_mongo line 317 and the rest of run(): the loop is over
GhSaved(r) ==
    /\ gh[r].pc = "save"
    /\ gh[r].idx > Len(gh[r].results)
    /\ gh' = [gh EXCEPT ![r].pc = "done"]
    /\ UNCHANGED <<githubHash, ghResult>>
    /\ UNCHANGED <<submitVars, schedVars, monVars, diffVars, routeVars, ipVars, nameVars, execVars>>

\* the worker takes the next github_task_monitor payload
GhFinish(r) ==
    /\ gh[r].pc = "done"
    /\ gh' = [gh EXCEPT ![r] = IdleGh]
    /\ UNCHANGED <<githubHash, ghResult>>
    /\ UNCHANGED <<submitVars, schedVars, monVars, diffVars, routeVars, ipVars, nameVars, execVars>>

InitDedup ==
    /\ InitStores
    /\ InitExt
    /\ redisEnabled = FALSE
    /\ now = StartBase
    /\ bootTime = now
    /\ sched = [j \in Jobs |->
                [NewJob("future_scan", 0, 0, "task", 1, TRUE, "dingding", "finished")
                    EXCEPT !.status = "stop"]]

NextDedup ==
    \/ \E r \in GhRuns : GhStart(r)
    \/ \E r \in GhRuns : GhSaveOne(r)
    \/ \E r \in GhRuns : GhSaved(r)
    \/ \E r \in GhRuns : GhFinish(r)

SpecDedup == InitDedup /\ [][NextDedup]_vars

\* C12 as claimed: every hash fed for a scope has been emitted exactly once
\* for that scope, and a hash never fed for a scope has not been emitted.
C12_ExactlyOneEmission ==
    \A k \in GhKeys : ghResult[k] = (IF k \in githubHash THEN 1 ELSE 0)

\* the result the run r handles in this step
GhHandled(r) == gh[r].results[gh[r].idx]
IsGhSaveStep(r) == gh[r].pc = "save" /\ gh'[r].idx = gh[r].idx + 1

\* C12 as amended: a hash is emitted at most once per scope.  Its first
\* occurrence for a scope is recorded, and emitted unless filter_result
\* drops it; every later occurrence for that scope changes neither store;
\* what other scopes have recorded plays no part.
C12_AtMostOneEmission ==
    /\ [](\A k \in GhKeys : ghResult[k] <= 1 /\ (ghResult[k] = 1 => k \in githubHash))
    /\ [][\A r \in GhRuns : IsGhSaveStep(r) =>
            LET key == <<gh[r].sid, GhHandled(r).hash>>
            IN  IF key \in githubHash
                THEN githubHash' = githubHash /\ ghResult' = ghResult
                ELSE /\ githubHash' = githubHash \cup {key}
                     /\ ghResult' = [ghResult EXCEPT ![key] =
                            IF GhHandled(r).filtered THEN @ ELSE @ + 1]]_vars

\* a run of monitor 2 met hash h1 twice and emitted it once, although
\* monitor 1 had recorded and emitted h1 before
C12_Witness ==
    \E r \in GhRuns :
        /\ gh[r].pc = "done"
        /\ gh[r].sid = 2
        /\ Len(gh[r].results) = 2
        /\ gh[r].results[1].hash = "h1"
        /\ gh[r].results[2] = gh[r].results[1]
        /\ gh[r].cnt = 1
        /\ ghResult[<<1, "h1">>] = 1
        /\ ghResult[<<2, "h1">>] = 1

\* ------------------------------------------------------------------------
\* scheduler.py run_forever: one cycle over MonitorJobs and ScheduledJobs
\* ------------------------------------------------------------------------
\* the monitor jobs of the store when the scheduler starts: a domain job and
\* an ip job that were added at that moment, and a site job that stop_job
\* has stopped
LoopMonitor(m) ==
    IF m = 1 THEN NewMonitor(1, "a.com", "domain", MinInterval)
    ELSE IF m = 2 THEN NewMonitor(2, "1.1.1.1", "ip", MinInterval)
    ELSE IF m = 3
    THEN [NewMonitor(1, "Site-a.com", "site_update_monitor", MinInterval)
            EXCEPT !.next_run_time = SysMaxsize, !.status = "stop"]
    ELSE NoMon

InitLoop ==
    /\ InitTick
    /\ InitExt
    /\ redisEnabled = FALSE
    /\ now = StartBase + 50
    /\ bootTime = now
    /\ mon = [m \in MonIds |-> LoopMonitor(m)]
    /\ nextMonId = 4
    /\ sched = [j \in Jobs |-> SchedJob(j, BadCron, StartBase + 100)]

NextLoop ==
    \/ MonTickLoad
    \/ MonTickJob
    \/ MonTickPersist
    \/ TickLoad
    \/ TickJob
    \/ TickDispatch
    \/ TickRunsLoad
    \/ RunEval
    \/ RunRaise
    \/ RunWrite
    \/ TickSleep
    \/ \E m \in MonIds : UpdateJobRun(m)

SpecLoop == InitLoop /\ [][NextLoop]_vars

\* C18: without a kill of the process, the loop over the MonitorJobs is left
\* only after the last item of its list and the loop over the ScheduledJobs
\* only after the last item of its snapshot, whatever exceptions the items
\* before have raised; an exception is logged and the cycle goes on with the
\* next item, the next loop and the next tick.
C18_ExceptionIsolatedPerJob ==
    /\ [][(tickPc \in {"mon_jobs", "mon_persist"} /\ tickPc' = "load")
            => monIdx' = MonCount(monItems) + 1]_vars
    /\ [][(tickPc \in {"jobs", "dispatch"} /\ tickPc' = "runs")
            => tickIdx' = NJobs + 1]_vars
    /\ [][(excLog' # excLog /\ excLog' # {}) =>
            tickPc' \in {"mon_jobs", "load", "jobs", "runs", "sleep"}]_vars

\* C18 witness: in one cycle the first MonitorJob and the first ScheduledJob
\* have raised, the MonitorJob after it was fired and stored, the
\* ScheduledJob after it was fired, and the next tick has begun
C18_Witness ==
    /\ <<"monitor", 1>> \in excLog
    /\ <<"job", 1>> \in excLog
    /\ \E i \in 1..Len(monFireLog) :
        /\ monFireLog[i].job = 2
        /\ mon[2].next_run_time = monFireLog[i].at + mon[2].interval
        /\ \E a \in FiresOf(2) : fireLog[a].at = monFireLog[i].at
    /\ tickPc = "sleep"

\* the step of asset_monitor_scheduler's loop body that decides about the
\* item at monIdx
IsMonJobStep ==
    /\ tickPc = "mon_jobs"
    /\ (monIdx' = monIdx + 1 \/ tickPc' = "mon_persist")

\* C20: on a tick, the MonitorJob the loop looks at is submitted if and only
\* if its status is running and its next_run_time is not after the tick
\* time; the write that follows sets next_run_time to the tick time plus the
\* interval; and two fires of one job are at least its interval apart.
C20_MonitorFiredIffDue ==
    /\ [][IsMonJobStep =>
            LET item == monItems[monIdx]
            IN  (tickPc' = "mon_persist" \/ <<"monitor", monIdx>> \in excLog')
                    <=> (item.status = "running" /\ item.next_run_time <= monCurr)]_vars
    /\ [][(tickPc = "mon_persist" /\ monIdx' = monIdx + 1 /\ excLog' = excLog)
            => mon'[monIdx].next_run_time = monCurr + monItems[monIdx].interval]_vars
    /\ [](\A a, b \in 1..Len(monFireLog) :
            (a < b /\ monFireLog[a].job = monFireLog[b].job)
                => monFireLog[b].at - monFireLog[a].at
                        >= mon[monFireLog[a].job].interval)

\* ------------------------------------------------------------------------
\* MonitorJobs: the scheduler's fires, the workers that execute them and the
\* operator's stop and recover requests
\* ------------------------------------------------------------------------
\* the scope_type values of the MonitorJobs
MonitorTypes == {"domain", "ip", "site_update_monitor", "wih_update_monitor"}

\* the monitor job of the store when the scheduler starts: one job of the
\* given type, which is due
RunMonitor(m, type) ==
    IF m = 1
    THEN [NewMonitor(1, "a.com", type, MinInterval) EXCEPT !.next_run_time = now]
    ELSE NoMon

\* the scheduler starts two sleeps before the end of the time that is looked at
MonRunStart == MaxTime - 2 * (SleepSeconds + MaxWork)

InitMonRun ==
    /\ InitTick
    /\ InitExt
    /\ redisEnabled = FALSE
    /\ now = MonRunStart
    /\ bootTime = now
    /\ \E type \in MonitorTypes : mon = [m \in MonIds |-> RunMonitor(m, type)]
    /\ nextMonId = 2
    /\ sched = [j \in Jobs |->
                [NewJob("future_scan", 0, 0, "task", 1, TRUE, "dingding", "finished")
                    EXCEPT !.status = "stop"]]

NextMonRun ==
    \/ MonTickLoad
    \/ MonTickJob
    \/ MonTickPersist
    \/ TickLoad
    \/ TickJob
    \/ TickRunsLoad
    \/ TickSleep
    \/ \E m \in MonIds : DomainExecutors(m)
    \/ \E t \in TaskIds : AssetSiteUpdateTask(t)
    \/ \E t \in TaskIds : WorkerFinish(t)
    \/ \E m \in MonIds : StopJob(m)
    \/ \E m \in MonIds : RecoverJob(m)

SpecMonRun == InitMonRun /\ [][NextMonRun]_vars

\* the Tasks that the fires of monitor job m have made
TasksOfMon(m) == {t \in TaskIds : monTask[t] = m}

\* the fires of monitor job m
FiresOfMon(m) == {i \in 1..Len(monFireLog) : monFireLog[i].job = m}

\* the job messages of m that no worker has taken yet; the fire of a site
\* or wih job publishes the id of its Task and no job message
InFlight(m) ==
    IF mon[m].scope_type \in {"domain", "ip"} THEN monSent[m] ELSE 0

LiveTasksOfMon(m) ==
    {t \in TasksOfMon(m) : task[t].status \in {"waiting", "running"}}

\* C22: at any time at most one Task produced by a given MonitorJob is in a
\* non-terminal status: a MonitorJob is not fired again while the Task of
\* its previous fire is still waiting or running.
C22_OneLiveTaskPerMonitor ==
    \A m \in MonIds : Cardinality(LiveTasksOfMon(m)) <= 1

\* the step is the operator's request number Len(opLog') and asks for
\* status on monitor job m
IsMonRequest(m, status) ==
    /\ Len(opLog') = Len(opLog) + 1
    /\ opLog'[Len(opLog')].job = m
    /\ opLog'[Len(opLog')].status = status

\* the step is a fire of monitor job m
IsMonFire(m) ==
    /\ Len(monFireLog') = Len(monFireLog) + 1
    /\ monFireLog'[Len(monFireLog')].job = m

\* C23: stop_job sets a MonitorJob's status to stop and its next_run_time to
\* the maximum integer, so no tick fires a job that is stopped in the store
\* and a stopped job stays stopped until recover_job; recover_job sets its
\* status to running and its next_run_time to now + interval.
C23_StopAndRecover ==
    /\ [][\A m \in MonIds : IsMonRequest(m, "stop") =>
            /\ mon'[m].status = "stop"
            /\ mon'[m].next_run_time = SysMaxsize]_vars
    /\ [][\A m \in MonIds : IsMonFire(m) => mon[m].status # "stop"]_vars
    /\ [][\A m \in MonIds :
            (mon[m].status = "stop" /\ mon'[m].status # "stop")
                => IsMonRequest(m, "running")]_vars
    /\ [][\A m \in MonIds : IsMonRequest(m, "running") =>
            /\ mon'[m].status = "running"
            /\ mon'[m].next_run_time = now + mon[m].interval]_vars

\* ------------------------------------------------------------------------
\* Tasks: the workers and the operator's stop, delete and restart requests
\* ------------------------------------------------------------------------
\* the store holds the Task of a fire of the domain job 1, which a worker
\* executes, and a Task that submit_task has published; the scheduler does
\* not act on Tasks and stays at the start of its cycle
InitTask ==
    /\ task = [t \in TaskIds |->
                IF t \in {1, 2} THEN [status |-> "waiting", celery_id |-> "cid"]
                ELSE NoTask]
    /\ queue = {2}
    /\ working = {1}
    /\ nextTaskId = 3
    /\ monTask = [t \in TaskIds |-> IF t = 1 THEN 1 ELSE 0]
    /\ sub = [c \in Callers |-> IdleSub]
    /\ run = [r \in RunIds |-> NoRun]
    /\ nextRunId = 1
    /\ tickPc = "mon_load"
    /\ tickItems = << >>
    /\ tickIdx = 1
    /\ tickFire = NoFire
    /\ excLog = {}
    /\ opLog = << >>
    /\ monItems = [m \in MonIds |-> NoMon]
    /\ monIdx = 1
    /\ monCurr = 0
    /\ monFireLog = << >>
    /\ monSent = [m \in MonIds |-> 0]
    /\ tickRuns = << >>
    /\ tickRunItem = NoRunItem
    /\ fireLog = << >>
    /\ sent = [r \in RunIds |-> 0]
    /\ crashes = 0
    /\ monCache = [s \in ScopeIds |-> NoCache]
    /\ req = [c \in Requests |-> IdleReq]
    /\ InitExt
    /\ redisEnabled = FALSE
    /\ now = StartBase
    /\ bootTime = now
    /\ mon = [m \in MonIds |->
                IF m = 1 THEN JobRunUpdated(NewMonitor(1, "a.com", "domain", MinInterval), now)
                ELSE NoMon]
    /\ nextMonId = 2
    /\ sched = [j \in Jobs |->
                [NewJob("future_scan", 0, 0, "task", 1, TRUE, "dingding", "finished")
                    EXCEPT !.status = "stop"]]

NextTask ==
    \/ \E t \in TaskIds : WorkerStart(t)
    \/ \E t \in TaskIds : WorkerFinish(t)
    \/ \E t \in TaskIds : StopTaskCheck(t)
    \/ StopTaskWrite
    \/ \E lst \in IdLists : DeleteTask(lst)
    \/ \E lst \in IdLists : TaskRestart(lst)

SpecTask == InitTask /\ [][NextTask]_vars

\* C28: the status of a Task only moves forward, from waiting to running
\* (the progress labels included) and from either to done, stop or error;
\* once it is done, stop or error no later write of a worker, of stop_task
\* or of the scheduler changes it.
C28_StatusMovesForward ==
    [][\A t \in TaskIds :
        (task[t].status # "absent" /\ task'[t].status # "absent"
            /\ task'[t].status # task[t].status)
        => \/ task[t].status = "waiting"
              /\ task'[t].status \in {"running"} \cup DoneStatus
           \/ task[t].status = "running" /\ task'[t].status \in DoneStatus]_vars

\* the step serves a request of the given kind to its end
IsServed(kind) == treq' # treq /\ treq'.pc = treq.pc /\ treq'.kind = kind

\* the Tasks of the list of the request that the step serves
ListedTasks == {treq'.ids[i] : i \in 1..Len(treq'.ids)}

\* C29: a stop request for a Task that is done, stop or error is rejected,
\* sends no terminate signal and changes nothing; a delete or restart
\* request that lists a waiting or running Task is rejected and deletes or
\* restarts none; a restart request for Tasks that are all done, stop or
\* error makes one new waiting Task per listed Task and leaves the listed
\* Tasks as they are.
C29_RequestsOnTerminalTasks ==
    /\ [][(IsServed("stop") /\ treq.pc = "idle"
             /\ task[treq'.ids[1]].status \in DoneStatus)
            => /\ treq'.code = "TaskIsDone"
               /\ ~treq'.revoked
               /\ UNCHANGED <<task, queue, working>>]_vars
    /\ [][((IsServed("delete") \/ IsServed("restart"))
             /\ \E t \in ListedTasks : task[t].status \in {"waiting", "running"})
            => /\ treq'.code # "Success"
               /\ UNCHANGED <<task, queue, nextTaskId>>]_vars
    /\ [][(IsServed("restart")
             /\ \A t \in ListedTasks : task[t].status \in DoneStatus)
            => /\ \A t \in ListedTasks : task'[t] = task[t]
               /\ Cardinality(treq'.made) = Len(treq'.ids)
               /\ \A n \in treq'.made :
                    task[n].status = "absent" /\ task'[n].status = "waiting"]_vars

\* C29 amended: as C29 for the stop, delete and rejected restart requests; a
\* restart request for Tasks that are all done, stop or error leaves the
\* listed Tasks as they are and makes new waiting Tasks for the listed Tasks
\* before the first one whose restart raises; it answers Success exactly
\* when it made one per listed Task, and it answers Error without
\* restarting the Task when a listed Task belongs to a domain or ip monitor
\* job.
C29_RestartUnlessMonitorTask ==
    /\ [][(IsServed("stop") /\ treq.pc = "idle"
             /\ task[treq'.ids[1]].status \in DoneStatus)
            => /\ treq'.code = "TaskIsDone"
               /\ ~treq'.revoked
               /\ UNCHANGED <<task, queue, working>>]_vars
    /\ [][((IsServed("delete") \/ IsServed("restart"))
             /\ \E t \in ListedTasks : task[t].status \in {"waiting", "running"})
            => /\ treq'.code # "Success"
               /\ UNCHANGED <<task, queue, nextTaskId>>]_vars
    /\ [][(IsServed("restart")
             /\ \A t \in ListedTasks : task[t].status \in DoneStatus)
            => /\ \A t \in ListedTasks : task'[t] = task[t]
               /\ \A n \in treq'.made :
                    task[n].status = "absent" /\ task'[n].status = "waiting"
               /\ treq'.code = "Success"
                    <=> Cardinality(treq'.made) = Len(treq'.ids)
               /\ \A i \in 1..Len(treq'.ids) :
                    (monTask[treq'.ids[i]] # 0
                        /\ mon[monTask[treq'.ids[i]]].scope_type \in {"domain", "ip"})
                    => /\ treq'.code = "Error"
                       /\ Cardinality(treq'.made) < i]_vars

\* C29 witness: a restart request for the finished Task 2 and the finished
\* monitor Task 1, in this order, has made the new waiting Task 3 and was
\* answered with Error
C29_Witness ==
    /\ treq.kind = "restart"
    /\ treq.ids = <<2, 1>>
    /\ treq.code = "Error"
    /\ treq.made = {3}
    /\ task[3].status = "waiting"
    /\ task[1].status \in DoneStatus
    /\ task[2].status \in DoneStatus

\* ------------------------------------------------------------------------
\* Reconciliation of one ScheduleRun while its Tasks are executed, stopped
\* and deleted
\* ------------------------------------------------------------------------
\* the scheduler starts one sleep before the end of the observed time
ReconStart == MaxTime - (SleepSeconds + MaxWork)

\* the notification settings of the job whose run is reconciled
ReconConfig == [enable |-> TRUE, channel |-> "dingding", on |-> "always"]

\* a firing of job 1 has submitted the Tasks 1 and 2 and created run 1 with
\* the notification settings of the job; no job is scheduled any more
InitReconAt(start) ==
    /\ task = [t \in TaskIds |->
                IF t \in {1, 2} THEN [status |-> "waiting", celery_id |-> "cid"]
                ELSE NoTask]
    /\ queue = {1, 2}
    /\ working = {}
    /\ nextTaskId = 3
    /\ monTask = [t \in TaskIds |-> 0]
    /\ sub = [c \in Callers |-> IdleSub]
    /\ nextRunId = 2
    /\ tickPc = "mon_load"
    /\ tickItems = << >>
    /\ tickIdx = 1
    /\ tickFire = NoFire
    /\ excLog = {}
    /\ opLog = << >>
    /\ monItems = [m \in MonIds |-> NoMon]
    /\ monIdx = 1
    /\ monCurr = 0
    /\ monFireLog = << >>
    /\ monSent = [m \in MonIds |-> 0]
    /\ tickRuns = << >>
    /\ tickRunItem = NoRunItem
    /\ fireLog = << >>
    /\ sent = [r \in RunIds |-> 0]
    /\ crashes = 0
    /\ mon = [m \in MonIds |-> NoMon]
    /\ nextMonId = 1
    /\ monCache = [s \in ScopeIds |-> NoCache]
    /\ req = [c \in Requests |-> IdleReq]
    /\ InitExt
    /\ redisEnabled = FALSE
    /\ now = start
    /\ bootTime = now
    /\ sched = [j \in Jobs |-> [RunJob(j, ReconConfig) EXCEPT !.status = "stop"]]
    /\ run = [r \in RunIds |->
                IF r = 1 THEN NewRun(1, RunJob(1, ReconConfig), <<1, 2>>) ELSE NoRun]

InitRecon == InitReconAt(ReconStart)

NextRecon ==
    \/ MonTickLoad
    \/ TickLoad
    \/ TickJob
    \/ TickRunsLoad
    \/ RunEval
    \/ RunWrite
    \/ TickSleep
    \/ \E t \in TaskIds : WorkerStart(t)
    \/ \E t \in TaskIds : WorkerFinish(t)
    \/ \E t \in TaskIds : StopTaskCheck(t)
    \/ StopTaskWrite
    \/ \E t \in TaskIds : DeleteTask(<<t>>)

SpecRecon == InitRecon /\ [][NextRecon]_vars

\* the Tasks a run document refers to, as the store holds them
OpenTasks(rec) ==
    {i \in 1..Len(rec.task_ids) : task[rec.task_ids[i]].status \in {"waiting", "running"}}

FailedTasks(rec) ==
    {i \in 1..Len(rec.task_ids) :
        task[rec.task_ids[i]].status \in {"error", "stop", "absent"}}

\* C24: a run document changes only by the write of a reconciliation pass.
\* The pass that finds a referenced Task waiting or running keeps status
\* running and push_status pending and changes nothing but the summary; the
\* pass that finds none closes the run, with status error when a referenced
\* Task is error, stop or missing from the store and finished otherwise.
C24_RunClosesWhenNoTaskOpen ==
    /\ [][\A r \in RunIds : run'[r] # run[r] =>
            /\ tickPc = "run_write"
            /\ tickRunItem.id = r
            /\ run'[r] = tickRunItem.rec
            /\ run[r].status = "running"]_vars
    /\ [][(tickPc = "run_eval" /\ tickPc' = "run_write") =>
            LET old == Head(tickRuns).rec
                new == tickRunItem'.rec
            IN  /\ tickRunItem'.id = Head(tickRuns).id
                /\ OpenTasks(old) # {} =>
                    /\ new.status = "running"
                    /\ new.push_status = "pending"
                    /\ new = [old EXCEPT !.summary = new.summary]
                /\ (OpenTasks(old) = {} /\ FailedTasks(old) # {}) =>
                    new.status = "error"
                /\ (OpenTasks(old) = {} /\ FailedTasks(old) = {}) =>
                    new.status = "finished"]_vars

\* C24 witness: after a pass that only counted, run 1 was closed with status
\* error because one of its Tasks was stopped and the other one deleted
C24_Witness ==
    /\ run[1].status = "error"
    /\ run[1].summary.stop = 1
    /\ run[1].summary.missing = 1
    /\ run[1].end_time > ReconStart

\* C25: the pass that closes a run sets push_status skip, and sends nothing,
\* when notify_enable is false or notify_on does not ask for the closing
\* status (always asks for both, failed for error only, finished for
\* finished only); otherwise it sets success when the dingding transport
\* delivered and error when it did not or when the channel is not dingding;
\* the closing status is the one the Tasks give, whatever the notification
\* did.
C25_PushStatusOnClose ==
    [][(tickPc = "run_eval" /\ tickPc' = "run_write"
            /\ tickRunItem'.rec.status # "running") =>
        LET old == Head(tickRuns).rec
            new == tickRunItem'.rec
            id == Head(tickRuns).id
            asked == \/ old.notify_on = "always"
                     \/ old.notify_on = "failed" /\ new.status = "error"
                     \/ old.notify_on = "finished" /\ new.status = "finished"
            delivered == sent'[id] = sent[id] + 1
        IN  /\ new.status = IF FailedTasks(old) = {} THEN "finished" ELSE "error"
            /\ \A r \in RunIds : r # id => sent'[r] = sent[r]
            /\ delivered \/ sent'[id] = sent[id]
            /\ (~old.notify_enable \/ ~asked) =>
                (new.push_status = "skip" /\ ~delivered)
            /\ (old.notify_enable /\ asked /\ old.notify_channel = "dingding") =>
                new.push_status = IF delivered THEN "success" ELSE "error"
            /\ (old.notify_enable /\ asked /\ old.notify_channel # "dingding") =>
                (new.push_status = "error" /\ ~delivered)]_vars

\* C25 witness: a run of a job that notifies on failure was closed with
\* status finished and push_status skip, and nothing was sent
C25_Witness ==
    \E r \in RunIds :
        /\ run[r].status = "finished"
        /\ run[r].notify_enable
        /\ run[r].notify_on = "failed"
        /\ run[r].push_status = "skip"
        /\ sent[r] = 0

\* the runs of the store
StoredRuns == {r \in RunIds : run[r].status # "absent"}

\* the Tasks of the store: in the scheduler loop every one of them was
\* submitted by a firing
StoredTasks == {t \in TaskIds : task[t].status # "absent"}

\* C26: every run references at least one Task, every Task a firing has
\* submitted is referenced by a run, by one run only, and the run is the one
\* that was created for the firing of the job it names with that run_number.
C26_EveryDispatchedTaskInItsRun ==
    /\ \A r \in StoredRuns : Len(run[r].task_ids) >= 1
    /\ \A t \in StoredTasks :
        Cardinality({r \in StoredRuns : t \in Range(run[r].task_ids)}) = 1
    /\ \A r, q \in StoredRuns :
        (run[r].schedule_id = run[q].schedule_id
            /\ run[r].run_number = run[q].run_number) => r = q

\* ------------------------------------------------------------------------
\* The reconciliation under a scheduler loop that never ends
\* ------------------------------------------------------------------------
\* run_forever line 474 after the end of the observed time: the loop sleeps
\* and starts its next cycle, and the clock is not read any further
TickSleepLate ==
    /\ tickPc = "sleep"
    /\ now + SleepSeconds > MaxTime
    /\ tickPc' = "mon_load"
    /\ tickItems' = << >>
    /\ tickIdx' = 1
    /\ monItems' = [m \in MonIds |-> NoMon]
    /\ monIdx' = 1
    /\ monCurr' = 0
    /\ UNCHANGED <<task, queue, working, nextTaskId, sub, now, bootTime, sched,
                   run, nextRunId, tickRuns, tickRunItem, fireLog, sent, crashes,
                   tickLogVars, monFireLog, monSent, monTask>>
    /\ UNCHANGED <<monVars, extVars>>

\* one step of the scheduler process: run_forever is a sequential loop
\* whose calls return, so the process always takes its next step
SchedulerStep ==
    \/ MonTickLoad
    \/ TickLoad
    \/ TickJob
    \/ TickRunsLoad
    \/ RunEval
    \/ RunWrite
    \/ TickSleepLate

\* the loop has reached the end of the observed time; the workers execute
\* the two Tasks of run 1 while the operator stops Task 1 and deletes Task 2
InitReconLive == InitReconAt(MaxTime)

NextReconLive ==
    \/ SchedulerStep
    \/ \E t \in TaskIds : WorkerStart(t)
    \/ \E t \in TaskIds : WorkerFinish(t)
    \/ StopTaskCheck(1)
    \/ StopTaskWrite
    \/ DeleteTask(<<2>>)

SpecReconLive ==
    InitReconLive /\ [][NextReconLive]_vars /\ WF_vars(SchedulerStep)

\* every Task the run r refers to is done, stop, error or deleted
TasksSettled(r) ==
    run[r].status # "absent" =>
        \A i \in 1..Len(run[r].task_ids) :
            task[run[r].task_ids[i]].status \in DoneStatus \cup {"absent"}

MaxIpRuns == 2

\* an ip_info of a scan output, or a document of asset_ip: the address is
\* there with the ports of its port_info, or it is not there
IpInfos == {NoIp} \cup {[known |-> TRUE, ports |-> P] : P \in SUBSET Ports}

\* set_asset_ip line 457, async_ip_info line 481: "{}:{}".format(ip, port_id)
IpPort(ip, port) == ip \o ":" \o ToString(port)

NewPortsAll(ip, ports, asset_ip_port_set) == ports

\* async_ip_info lines 479-485: new_port_info_list
NewPorts(ip, ports, asset_ip_port_set) ==
    {p \in ports : IpPort(ip, p) \notin asset_ip_port_set}

\* the job runs over a scope whose asset_ip collection holds any documents,
\* and its port scan finds any addresses and ports, the same in every run
InitIp ==
    /\ InitStores
    /\ DiffIdle
    /\ DedupIdle
    /\ RouteIdle
    /\ NameIdle
    /\ ExecIdle
    /\ redisEnabled = FALSE
    /\ now = StartBase
    /\ bootTime = now
    /\ sched = [j \in Jobs |->
                [NewJob("future_scan", 0, 0, "task", 1, TRUE, "dingding", "finished")
                    EXCEPT !.status = "stop"]]
    /\ assetIp \in [IpAddrs -> IpInfos]
    /\ \E scan \in [IpAddrs -> IpInfos] : ipx = [IdleIpx EXCEPT !.scan = scan]

\* IPExecutor.__init__ and IPTask.port_scan lines 188-191: a new executor
\* with an empty map and set takes the output of services.port_scan
PortScan ==
    /\ ipx.pc \in {"idle", "synced"}
    /\ ipx.runs < MaxIpRuns
    /\ ipx' = [ipx EXCEPT !.pc = "scanned",
                           !.ip_info_list = ipx.scan,
                           !.base = IdleIpx.base,
                           !.asset_ip_info_map = IdleIpx.asset_ip_info_map,
                           !.asset_ip_port_set = {}]
    /\ UNCHANGED <<submitVars, schedVars, monVars, diffVars, dedupVars, routeVars,
                   assetIp, nameVars, execVars>>

\* set_asset_ip lines 448-458
SetAssetIp ==
    /\ ipx.pc = "scanned"
    /\ ipx' = [ipx EXCEPT !.pc = "loaded",
                           !.base = assetIp,
                           !.asset_ip_info_map = assetIp,
                           !.asset_ip_port_set =
                                UNION {{IpPort(a, p) : p \in assetIp[a].ports} :
                                        a \in {x \in IpAddrs : assetIp[x].known}}]
    /\ UNCHANGED <<submitVars, schedVars, monVars, diffVars, dedupVars, routeVars,
                   assetIp, nameVars, execVars>>

\* async_ip_info lines 460-505: the loop over ip_info_list
AsyncIpInfo ==
    /\ ipx.pc = "loaded"
    /\ LET map == ipx.asset_ip_info_map
           fresh(a) == NewPorts(a, ipx.ip_info_list[a].ports, ipx.asset_ip_port_set)
           grown(a) == [map[a] EXCEPT !.ports = @ \cup fresh(a)]
       IN  /\ assetIp' = [a \in IpAddrs |->
                    IF ~ipx.ip_info_list[a].known THEN assetIp[a]
                    ELSE IF ~map[a].known THEN ipx.ip_info_list[a]
                    ELSE IF fresh(a) # {} THEN grown(a)
                    ELSE assetIp[a]]
           /\ ipx' = [ipx EXCEPT
                    !.pc = "synced",
                    !.runs = @ + 1,
                    !.asset_ip_info_map = [a \in IpAddrs |->
                        IF ipx.ip_info_list[a].known /\ map[a].known /\ fresh(a) # {}
                        THEN grown(a) ELSE map[a]],
                    !.ip_info_list = [a \in IpAddrs |->
                        IF ~ipx.ip_info_list[a].known THEN NoIp
                        ELSE IF ~map[a].known THEN ipx.ip_info_list[a]
                        ELSE IF fresh(a) # {}
                        THEN [known |-> TRUE, ports |-> fresh(a)]
                        ELSE NoIp]]
    /\ UNCHANGED <<submitVars, schedVars, monVars, diffVars, dedupVars, routeVars, nameVars, execVars>>

NextIp ==
    \/ PortScan
    \/ SetAssetIp
    \/ AsyncIpInfo

SpecIp == InitIp /\ [][NextIp]_vars

\* C30: after async_ip_info the reported ip_info_list holds every scanned
\* address that the baseline of the run did not hold, with all its ports,
\* and every scanned address of the baseline that has a port the baseline
\* did not hold, with these ports only; no other address is reported; the
\* baseline has become the union of the old one and the scan; and the
\* second run, with the same scan output, reports nothing and leaves the
\* baseline as it is.
C30_SubtractAgainstBaseline ==
    ipx.pc = "synced" =>
        /\ \A a \in IpAddrs :
            LET s == ipx.scan[a]
                b == ipx.base[a]
            IN  /\ ipx.ip_info_list[a] =
                        IF s.known /\ ~b.known THEN s
                        ELSE IF s.known /\ s.ports \ b.ports # {}
                        THEN [known |-> TRUE, ports |-> s.ports \ b.ports]
                        ELSE NoIp
                /\ assetIp[a] =
                        IF s.known /\ ~b.known THEN s
                        ELSE IF s.known
                        THEN [known |-> TRUE, ports |-> b.ports \cup s.ports]
                        ELSE b
        /\ ipx.runs = MaxIpRuns =>
            /\ \A a \in IpAddrs : ipx.ip_info_list[a] = NoIp
            /\ assetIp = ipx.base

\* C30 witness: the first run has ended; its scan held an address the
\* baseline did not hold and, for an address of the baseline, port 80 that
\* the baseline held and port 443 that it did not hold, and 443 alone is
\* reported for it
C30_Witness ==
    /\ ipx.pc = "synced"
    /\ ipx.runs = 1
    /\ ipx.base["10.0.0.1"] = [known |-> TRUE, ports |-> {80}]
    /\ ipx.scan["10.0.0.1"] = [known |-> TRUE, ports |-> {80, 443}]
    /\ ~ipx.base["10.0.0.2"].known
    /\ ipx.scan["10.0.0.2"] = [known |-> TRUE, ports |-> {80}]
    /\ ipx.ip_info_list["10.0.0.1"] = [known |-> TRUE, ports |-> {443}]
    /\ ipx.ip_info_list["10.0.0.2"] = ipx.scan["10.0.0.2"]
    /\ assetIp["10.0.0.1"].ports = {80, 443}

\* ------------------------------------------------------------------------
\* Every submission path: helpers/task.py submit_task with its routing map
\* and routes/taskFofa.py submit_fofa_task
\* ------------------------------------------------------------------------
\* submit_task lines 222-227: the type of the inserted record is not a key
\* of type_map_action, celery_action stays "" and the assert, which stands
\* before the try of line 234, raises
SubmitUnmapped(c) ==
    /\ UNCHANGED extVars
    /\ sub[c].pc = "inserted"
    /\ sub' = [sub EXCEPT ![c].pc = "raised", ![c].result = "raise",
                          ![c].err = "kind"]
    /\ UNCHANGED <<task, queue, working, nextTaskId, schedVars, monVars>>

\* submit_fofa_task line 259: insert_one(task_data) with status waiting
FofaInsert(c) ==
    /\ UNCHANGED extVars
    /\ sub[c].pc = "idle"
    /\ nextTaskId <= MaxTasks
    /\ task' = [task EXCEPT ![nextTaskId] = [status |-> "waiting", celery_id |-> ""]]
    /\ sub' = [sub EXCEPT ![c] = [pc |-> "fofa_inserted", tid |-> nextTaskId,
                                  result |-> "none", err |-> "none"]]
    /\ nextTaskId' = nextTaskId + 1
    /\ UNCHANGED <<queue, working, schedVars, monVars>>

\* submit_fofa_task line 270: celerytask.arl_task.delay(options=task_options)
\* with no try around it: when it raises, submit_fofa_task raises
FofaEnqueue(c) ==
    /\ UNCHANGED extVars
    /\ sub[c].pc = "fofa_inserted"
    /\ \E o \in EnqueueOutcomes :
        /\ queue' = IF o = "fail" THEN queue ELSE queue \cup {sub[c].tid}
        /\ sub' = IF o = "ok"
                  THEN [sub EXCEPT ![c].pc = "fofa_enqueued"]
                  ELSE [sub EXCEPT ![c].pc = "raised", ![c].result = "raise",
                                   ![c].err = "enqueue"]
    /\ UNCHANGED <<task, working, nextTaskId, schedVars, monVars>>

\* submit_fofa_task lines 275-277: update_one(_id, $set celery_id)
FofaPatch(c) ==
    /\ UNCHANGED extVars
    /\ sub[c].pc = "fofa_enqueued"
    /\ task' = IF task[sub[c].tid].status = "absent" THEN task
               ELSE [task EXCEPT ![sub[c].tid].celery_id = "cid"]
    /\ sub' = [sub EXCEPT ![c].pc = "returned", ![c].result = "task_data"]
    /\ UNCHANGED <<queue, working, nextTaskId, schedVars, monVars>>

NextSubmitAll ==
    \/ \E c \in Callers : SubmitInsert(c)
    \/ \E c \in Callers : SubmitUnmapped(c)
    \/ \E c \in Callers : SubmitEnqueue(c)
    \/ \E c \in Callers : SubmitPatch(c)
    \/ \E c \in Callers : SubmitRollback(c)
    \/ \E c \in Callers : SubmitDone(c)
    \/ \E c \in Callers : FofaInsert(c)
    \/ \E c \in Callers : FofaEnqueue(c)
    \/ \E c \in Callers : FofaPatch(c)
    \/ \E t \in TaskIds : WorkerStart(t)
    \/ \E t \in TaskIds : WorkerFinish(t)

SpecSubmitAll == InitSubmit /\ [][NextSubmitAll]_vars

\* C33: when a submission has raised, the Task record it inserted is not
\* left in status waiting with an empty celery_id while no payload for it is
\* in the queue or with a worker.
C33_NoOrphanAfterRaise ==
    \A c \in Callers :
        sub[c].pc = "raised" =>
            ~(/\ task[sub[c].tid].status = "waiting"
              /\ task[sub[c].tid].celery_id = ""
              /\ sub[c].tid \notin queue \cup working)

\* C34: the Task record of a payload that is in the queue or with a worker
\* exists; after the enqueue of submit_task has succeeded no step of that
\* submit_task removes the record; and when submit_task has returned the
\* record carries the celery_id.
C34_EnqueuedPayloadHasRecord ==
    /\ [](\A t \in queue \cup working : task[t].status # "absent")
    /\ [][\A c \in Callers :
            (sub'[c] # sub[c] /\ sub[c].err # "enqueue"
                /\ sub[c].pc \in {"enqueued", "rollback"}
                /\ task[sub[c].tid].status # "absent")
            => task'[sub[c].tid].status # "absent"]_vars
    /\ [](\A c \in Callers :
            sub[c].pc = "returned" => task[sub[c].tid].celery_id = "cid")

\* ------------------------------------------------------------------------
\* Properties of a MonitorJob under the tick, the workers and the operator
\* ------------------------------------------------------------------------
\* C35: a MonitorJob that stop_job has stopped keeps status stop and
\* next_run_time = sys.maxsize in every step that is not a recover request
\* for it, whatever the tick or a worker's update_job_run writes; and the
\* find_one_and_replace of a tick never decreases a stored run_number.
C35_StopDurable ==
    /\ [][\A m \in MonIds :
            (mon[m].status = "stop" /\ mon[m].next_run_time = SysMaxsize
                /\ ~IsMonRequest(m, "running"))
            => (mon'[m].status = "stop" /\ mon'[m].next_run_time = SysMaxsize)]_vars
    /\ [][\A m \in MonIds :
            (tickPc = "mon_persist" /\ mon[m].status # "absent")
            => mon'[m].run_number >= mon[m].run_number]_vars

\* C36: a ScheduledJob that is stored with status stop is not fired by the
\* tick and keeps status stop in every step of the tick, also when the tick
\* has loaded the job before the operator stopped it.
C36_TickRespectsStop ==
    [][\A j \in Jobs :
        (sched[j].status = "stop" /\ opLog' = opLog)
        => /\ sched'[j].status = "stop"
           /\ ~(IsFireStep /\ tickIdx = j)]_vars

\* ------------------------------------------------------------------------
\* The job messages of a monitor job that is stopped or deleted
\* ------------------------------------------------------------------------
\* routes/scheduler.py DeleteARLScheduler.post lines 264-277 with one job_id:
\* the job exists, then delete_job(job_id); the deletion of a site or wih job
\* is left out
DeleteJob(m) ==
    /\ mon[m].status # "absent"
    /\ ~SubmitsTask(mon[m])
    /\ mon' = [mon EXCEPT ![m] = NoMon]
    /\ UNCHANGED <<submitVars, now, bootTime, sched, run, nextRunId, tickPc,
                   tickItems, tickIdx, tickRuns, tickRunItem, fireLog, sent,
                   crashes, tickLogVars, monTickVars>>
    /\ UNCHANGED <<nextMonId, monCache, redisEnabled, req, extVars>>

NextMonDel ==
    \/ MonTickLoad
    \/ MonTickJob
    \/ MonTickPersist
    \/ TickLoad
    \/ TickJob
    \/ TickRunsLoad
    \/ TickSleep
    \/ \E m \in MonIds : DomainExecutors(m)
    \/ \E t \in TaskIds : AssetSiteUpdateTask(t)
    \/ \E t \in TaskIds : WorkerFinish(t)
    \/ \E m \in MonIds : StopJob(m)
    \/ \E m \in MonIds : RecoverJob(m)
    \/ \E m \in MonIds : DeleteJob(m)

SpecMonDel == InitMonRun /\ [][NextMonDel]_vars

\* C40: a worker that takes the job message of a domain or ip MonitorJob
\* which is stopped or deleted at that moment does nothing: it inserts no
\* Task record and leaves the job's document, with its run_number,
\* last_run_time and next_run_time, as it is.
C40_LateDispatchDoesNothing ==
    [][\A m \in MonIds :
        (/\ monSent'[m] < monSent[m]
         /\ queue' = queue
         /\ mon[m].status \in {"stop", "absent"})
        => /\ task' = task
           /\ nextTaskId' = nextTaskId
           /\ monTask' = monTask
           /\ working' = working
           /\ mon' = mon]_vars

\* C40 witness: a domain or ip job was fired and then deleted, a worker has
\* taken its job message, and there is no Task of the job
C40_Witness ==
    /\ mon[1].status = "absent"
    /\ Cardinality(FiresOfMon(1)) = 1
    /\ monSent[1] = 0
    /\ TasksOfMon(1) = {}
    /\ nextTaskId = 1

\* ------------------------------------------------------------------------
\* A fire of a monitor job whose submit raises
\* ------------------------------------------------------------------------
\* C39: when the submit of a MonitorJob's fire raises, the step writes
\* nothing: the stored job keeps its next_run_time, run_number and status,
\* no Task record and no job message of the fire exist; the job therefore is
\* still due, and a tick whose loop comes to a job that is not stopped and
\* whose next_run_time is not after curr_time never passes it over: it
\* submits the fire again (or the submit raises again).
C39_FailedFireLeavesJobDue ==
    /\ [][(tickPc = "mon_jobs" /\ excLog' # excLog)
            => /\ mon' = mon
               /\ task' = task
               /\ queue' = queue
               /\ monSent' = monSent
               /\ monTask' = monTask
               /\ monFireLog' = monFireLog
               /\ (mon[monIdx] = monItems[monIdx]
                     => /\ mon'[monIdx].status = "running"
                        /\ mon'[monIdx].next_run_time <= monCurr)]_vars
    /\ [][(/\ tickPc = "mon_jobs"
           /\ tickPc' # tickPc \/ monIdx' # monIdx
           /\ monItems[monIdx].status = "running"
           /\ monItems[monIdx].next_run_time <= monCurr)
            => (excLog' # excLog \/ monFireLog' # monFireLog)]_vars

\* C39 witness: the submit of the first tick raised, nobody touched the job,
\* and a later tick has submitted the fire of the job, which is stored as it
\* was
C39_Witness ==
    /\ tickPc = "mon_persist"
    /\ monIdx = 1
    /\ monCurr > MonRunStart
    /\ Len(monFireLog) = 1
    /\ opLog = << >>
    /\ mon[1].status = "running"
    /\ mon[1].next_run_time = MonRunStart
    /\ mon[1].run_number = 0

\* ------------------------------------------------------------------------
\* A job message that the queue delivers a second time
\* ------------------------------------------------------------------------
\* tasks/scheduler.py domain_executors / ip_executor run for a job message of
\* the domain or ip job m that a worker has taken before: the message holds
\* the job id, the target and the options and no Task id, and the executor
\* does what it did at the first delivery
DomainExecutorsAgain(m) ==
    /\ mon[m].status # "absent"
    /\ ~SubmitsTask(mon[m])
    /\ Cardinality(FiresOfMon(m)) > monSent[m]
    /\ IF ExecutorRuns(mon[m])
       THEN /\ nextTaskId <= MaxTasks
            /\ task' = [task EXCEPT ![nextTaskId] =
                         [status |-> "waiting", celery_id |-> "cid"]]
            /\ working' = working \cup {nextTaskId}
            /\ nextTaskId' = nextTaskId + 1
            /\ monTask' = [monTask EXCEPT ![nextTaskId] = m]
            /\ mon' = [mon EXCEPT ![m] = JobRunUpdated(mon[m], now)]
       ELSE UNCHANGED <<task, working, nextTaskId, monTask, mon>>
    /\ UNCHANGED <<queue, sub, now, bootTime, sched, run, nextRunId, tickPc,
                   tickItems, tickIdx, tickRuns, tickRunItem, fireLog, sent,
                   crashes, tickLogVars, monItems, monIdx, monCurr, monFireLog,
                   monSent>>
    /\ UNCHANGED <<nextMonId, monCache, redisEnabled, req, extVars>>

NextRedeliver ==
    \/ MonTickLoad
    \/ MonTickJob
    \/ MonTickPersist
    \/ TickLoad
    \/ TickJob
    \/ TickRunsLoad
    \/ TickSleep
    \/ \E m \in MonIds : DomainExecutors(m)
    \/ \E m \in MonIds : DomainExecutorsAgain(m)
    \/ \E t \in TaskIds : AssetSiteUpdateTask(t)
    \/ \E t \in TaskIds : WorkerFinish(t)

SpecRedeliver == InitMonRun /\ [][NextRedeliver]_vars

\* C32: however often the queue delivers a dispatched payload, the
\* deliveries make no additional Task record: a monitor job never has more
\* Task records than it has fires.
C32_RedeliveryMakesNoTask ==
    \A m \in MonIds :
        Cardinality(TasksOfMon(m)) <= Cardinality(FiresOfMon(m))

\* ------------------------------------------------------------------------
\* build_schedule_run_summary on any list of task ids
\* ------------------------------------------------------------------------
\* the longest task_ids list that is looked at
MaxSummaryIds == 4

\* the task_ids lists: ids of Tasks, which may be repeated, and strings that
\* are no ObjectId
SummaryIdLists == UNION {[1..n -> TaskIds \cup {BadId}] : n \in 0..MaxSummaryIds}

\* the statuses a Task of the list is stored with; absent is a deleted Task
SummaryStatuses == {"absent", "waiting", "running", "done", "error", "stop"}

\* one running ScheduleRun with any task_ids list, over any stored Tasks
InitSummary ==
    /\ \E st \in [TaskIds -> SummaryStatuses] :
          task = [t \in TaskIds |->
                    IF st[t] = "absent" THEN NoTask
                    ELSE [status |-> st[t], celery_id |-> "cid"]]
    /\ queue = {}
    /\ working = {}
    /\ nextTaskId = MaxTasks + 1
    /\ monTask = [t \in TaskIds |-> 0]
    /\ sub = [c \in Callers |-> IdleSub]
    /\ nextRunId = 2
    /\ tickPc = "mon_load"
    /\ tickItems = << >>
    /\ tickIdx = 1
    /\ tickFire = NoFire
    /\ excLog = {}
    /\ opLog = << >>
    /\ monItems = [m \in MonIds |-> NoMon]
    /\ monIdx = 1
    /\ monCurr = 0
    /\ monFireLog = << >>
    /\ monSent = [m \in MonIds |-> 0]
    /\ tickRuns = << >>
    /\ tickRunItem = NoRunItem
    /\ fireLog = << >>
    /\ sent = [r \in RunIds |-> 0]
    /\ crashes = 0
    /\ mon = [m \in MonIds |-> NoMon]
    /\ nextMonId = 1
    /\ monCache = [s \in ScopeIds |-> NoCache]
    /\ req = [c \in Requests |-> IdleReq]
    /\ InitExt
    /\ redisEnabled = FALSE
    /\ now = MaxTime
    /\ bootTime = now
    /\ sched = [j \in Jobs |-> [RunJob(j, ReconConfig) EXCEPT !.status = "stop"]]
    /\ \E ids \in SummaryIdLists :
          run = [r \in RunIds |->
                    IF r = 1 THEN NewRun(1, RunJob(1, ReconConfig), ids) ELSE NoRun]

NextSummary ==
    \/ MonTickLoad
    \/ TickLoad
    \/ TickJob
    \/ TickRunsLoad
    \/ RunEval
    \/ RunWrite

SpecSummary == InitSummary /\ [][NextSummary]_vars

\* the Tasks of the list ids that exist, and those stored with a status of S
ExistingOf(ids) == {t \in Range(ids) \ {BadId} : task[t].status # "absent"}
ExistingIn(ids, S) == {t \in ExistingOf(ids) : task[t].status \in S}

\* C38: for every task_ids list, with ids that are malformed, repeated or of
\* deleted Tasks, the summary written for the run has done + error + stop +
\* waiting + running + missing = total = Len(task_ids), and each Task that
\* exists is counted once, in the bucket of its status (running for any
\* status that is none of done, error, stop and waiting).
C38_SummaryAddsUp ==
    tickPc = "sleep" =>
        LET s == run[1].summary
            ids == run[1].task_ids
        IN  /\ s.done + s.error + s.stop + s.waiting + s.running + s.missing = s.total
            /\ s.total = Len(ids)
            /\ s.done = Cardinality(ExistingIn(ids, {"done"}))
            /\ s.error = Cardinality(ExistingIn(ids, {"error"}))
            /\ s.stop = Cardinality(ExistingIn(ids, {"stop"}))
            /\ s.waiting = Cardinality(ExistingIn(ids, {"waiting"}))
            /\ s.running = Cardinality(ExistingOf(ids))
                             - Cardinality(ExistingIn(ids, {"done", "error", "stop", "waiting"}))

\* C38 witness: the summary of a list with a malformed id, a repeated id and
\* the id of a deleted Task has been written
C38_Witness ==
    /\ tickPc = "sleep"
    /\ run[1].task_ids = <<BadId, 1, 1, 2>>
    /\ task[1].status = "done"
    /\ task[2].status = "absent"
    /\ run[1].summary.done = 1
    /\ run[1].summary.missing = 3

\* ------------------------------------------------------------------------
\* The run number of a fire of a recurrent job
\* ------------------------------------------------------------------------
\* C37, first part: each fire of a recurrent ScheduledJob increases its
\* stored run_number by exactly 1.
C37_FireAddsOne ==
    [][\A j \in Jobs :
        (/\ Len(fireLog') > Len(fireLog)
         /\ fireLog'[Len(fireLog')].job = j
         /\ sched[j].schedule_type = "recurrent_scan")
        => sched'[j].run_number = sched[j].run_number + 1]_vars

\* C37: each fire of a recurrent ScheduledJob increases its stored
\* run_number by exactly 1, and when the ScheduleRun of the fire is created
\* its run_number, the job's stored run_number and the run number in the
\* names of the Tasks of the fire are the same value.
C37_RunNumberAgrees ==
    /\ C37_FireAddsOne
    /\ [][\A r \in RunIds :
            (/\ run[r].status = "absent"
             /\ run'[r].status # "absent"
             /\ sched[run'[r].schedule_id].schedule_type = "recurrent_scan")
            => /\ run'[r].run_number = sched'[run'[r].schedule_id].run_number
               /\ \A i \in 1..Len(run'[r].task_ids) :
                    taskName'[run'[r].task_ids[i]] = run'[r].run_number]_vars

\* ------------------------------------------------------------------------
\* The worker-side executors and their except clauses
\* ------------------------------------------------------------------------
\* the executors a worker runs for a Task: tasks/scheduler.py
\* wrap_domain_executors and ip_executor, tasks/asset_site.py
\* asset_site_update_task, tasks/asset_wih.py asset_wih_update_task,
\* tasks/poc.py run_risk_cruising_task, tasks/ip.py ip_task
ExecKinds == {"domain_monitor", "ip_monitor", "site_update", "wih_update",
              "risk_cruising", "ip_task"}

\* the executors that insert the Task record themselves
\* (wrap_domain_executors line 136, IPExecutor.insert_task_data)
InsertingKinds == {"domain_monitor", "ip_monitor"}

\* what each executor does, in the order of its code, once the Task record
\* exists: wrap_domain_executors lines 140-151, ip_executor lines 542-544,
\* asset_site_update_task lines 207-210, asset_wih_update_task lines 240-245,
\* run_risk_cruising_task line 61 with RiskCruising.run lines 399-402,
\* ip_task lines 511-513
ExecSteps(kind) ==
    IF kind = "domain_monitor"
    THEN <<"construct", "update_job_run", "run", "sync_asset">>
    ELSE IF kind = "ip_monitor" THEN <<"run", "sync_asset">>
    ELSE IF kind = "site_update" THEN <<"construct", "update_job_run", "run">>
    ELSE IF kind = "wih_update"
    THEN <<"construct", "set_start_time", "update_job_run", "run", "set_done">>
    ELSE IF kind = "risk_cruising"
    THEN <<"construct", "set_start_time", "work", "set_done">>
    ELSE IF kind = "ip_task" THEN <<"construct", "run">>
    ELSE << >>

InTryAfterJobRun(kind, step) ==
    step \notin {"construct", "update_job_run"}
        /\ ~(kind = "wih_update" /\ step = "set_start_time")

\* the statements of an executor that its try block holds: the constructor
\* call stands before the try in every executor, and asset_wih_update_task
\* writes start_time before its try (line 241)
InTry(kind, step) ==
    step # "construct" /\ ~(kind = "wih_update" /\ step = "set_start_time")

\* the steps that do the executor's work and raise when it fails: the scan,
\* the asset sync and update_job_run; a constructor only assigns attributes
\* and the writes of start_time and of status done are single update_one
\* calls on the Task record
MayRaise(step) == step \in {"update_job_run", "run", "work", "sync_asset"}

\* the status of the Task after a step that ended without an exception:
\* DomainExecutor.run (line 251), IPTask.run (ip.py line 493) and
\* AssetSiteUpdateTask.run (line 187) end with status done, the wih update
\* and RiskCruising write done in a statement of their own and leave a
\* status of the work in progress before it
StatusAfter(kind, step, status) ==
    IF step = "set_done" THEN "done"
    ELSE IF step = "work" THEN "running"
    ELSE IF step = "run"
    THEN IF kind = "wih_update" THEN "running" ELSE "done"
    ELSE status

\* the executor of Task t has left its function
ExecEnded(t) == ex[t].kind # "none" /\ ex[t].pc > Len(ExecSteps(ex[t].kind))

\* a worker starts an executor: for a payload with a task_id it is the
\* executor of that Task, a monitor executor inserts its Task record first
ExecStart(t, kind) ==
    /\ ex[t] = IdleEx
    /\ IF kind \in InsertingKinds
       THEN /\ t = nextTaskId
            /\ nextTaskId <= MaxTasks
            /\ task' = [task EXCEPT ![t] = [status |-> "waiting", celery_id |-> "cid"]]
            /\ nextTaskId' = nextTaskId + 1
            /\ queue' = queue
       ELSE /\ t \in queue
            /\ task[t].status = "waiting"
            /\ queue' = queue \ {t}
            /\ UNCHANGED <<task, nextTaskId>>
    /\ working' = working \cup {t}
    /\ ex' = [ex EXCEPT ![t] = [kind |-> kind, pc |-> 1, raised |-> FALSE]]
    /\ UNCHANGED <<sub, schedVars, monVars, diffVars, dedupVars, routeVars,
                   ipVars, nameVars>>

\* the next statement of the executor of Task t ends without an exception;
\* update_task_field is an update_one that matches no document when the
\* record is gone
ExecStep(t) ==
    /\ ex[t].kind # "none"
    /\ ~ExecEnded(t)
    /\ LET kind == ex[t].kind
           step == ExecSteps(kind)[ex[t].pc]
       IN  /\ task' = IF task[t].status = "absent" THEN task
                      ELSE [task EXCEPT ![t].status = StatusAfter(kind, step, @)]
           /\ ex' = [ex EXCEPT ![t].pc = @ + 1]
           /\ working' = IF ex[t].pc = Len(ExecSteps(kind)) THEN working \ {t}
                         ELSE working
    /\ UNCHANGED <<queue, nextTaskId, sub, schedVars, monVars, diffVars,
                   dedupVars, routeVars, ipVars, nameVars>>

\* the next statement of the executor of Task t raises: inside the try the
\* except clause writes status error (wrap_domain_executors line 154,
\* ip_executor line 549, asset_site_update_task line 213,
\* asset_wih_update_task line 250, RiskCruising.run line 404, ip_task line
\* 516); outside of it the exception leaves the executor and run_task logs it
ExecRaise(t) ==
    /\ ex[t].kind # "none"
    /\ ~ExecEnded(t)
    /\ LET kind == ex[t].kind
           step == ExecSteps(kind)[ex[t].pc]
       IN  /\ MayRaise(step)
           /\ task' = IF InTry(kind, step) /\ task[t].status # "absent"
                      THEN [task EXCEPT ![t].status = "error"]
                      ELSE task
           /\ ex' = [ex EXCEPT ![t] = [kind |-> kind,
                                       pc |-> Len(ExecSteps(kind)) + 1,
                                       raised |-> TRUE]]
    /\ working' = working \ {t}
    /\ UNCHANGED <<queue, nextTaskId, sub, schedVars, monVars, diffVars,
                   dedupVars, routeVars, ipVars, nameVars>>

\* the two Tasks of a ScheduleRun wait in the queue, the ids after them
\* are free
InitExec == InitReconAt(StartBase)

NextExec ==
    \/ \E t \in TaskIds : \E kind \in ExecKinds : ExecStart(t, kind)
    \/ \E t \in TaskIds : ExecStep(t)
    \/ \E t \in TaskIds : ExecRaise(t)

SpecExec == InitExec /\ [][NextExec]_vars

====
